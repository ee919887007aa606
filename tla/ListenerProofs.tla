--------------------------- MODULE ListenerProofs ---------------------------
(* Proofs about Listener: which wires wait in the queues of which, in what   *)
(* order, and what the registry of a listener finds.                         *)
EXTENDS Listener, TLAPS

-----------------------------------------------------------------------------
(* The inductive invariant.                                                 *)

\* The inbox q has an event of type t for connection c, and has one at most.
Awaits(q, t, c) == \E i \in DOMAIN q : q[i].t = t /\ q[i].c = c
Single(q, t, c) ==
  \A i, j \in DOMAIN q :
    q[i].t = t /\ q[i].c = c /\ q[j].t = t /\ q[j].c = c => i = j

\* The inbox q asks for wire e to be forgotten.
Forgets(q, e) == \E i \in DOMAIN q : q[i] = DropWire(e)

\* A connection is handed to its opener's listener when it is new, to its acceptor's when it
\* has been accepted, and once to each.
EventInv(c) ==
  \A n \in Node :
    /\ Single(inbox[n], "outgoing", c) /\ Single(inbox[n], "incoming", c)
    /\ Awaits(inbox[n], "outgoing", c) =>
         c \in Opened /\ n = conns[c].from /\ conns[c].bi /\ up[c] = "new"
    /\ Awaits(inbox[n], "incoming", c) =>
         c \in Opened /\ n = conns[c].to /\ up[c] \in {"accepted", "welcome"}
           /\ at[In(c)] = "none"

\* It goes through its stages once: the opener's wire comes into being with the info it
\* writes, the acceptor's only after the listener has written its own.
ConnInv(c) ==
  /\ c \notin Opened => up[c] = "new" /\ call[c] = "reply"
  /\ up[c] = "new" => at[Out(c)] = "none"
  /\ at[Out(c)] = "none" => up[c] \in {"new", "lost"}
  /\ at[In(c)] # "none" => up[c] = "welcome"
  /\ up[c] = "welcome" => at[In(c)] # "none" \/ mid[conns[c].to] = c
  /\ call[c] = "reply" => at[Out(c)] = "none"
  /\ call[c] = "info" => at[Out(c)] = "held"
  /\ call[c] = "done" => up[c] = "welcome"
  /\ call[c] = "failed" => at[Out(c)] \in {"none", "dropped"}

\* The listener is at the event it has begun, and stops with an empty inbox.
MidInv(n) ==
  /\ mid[n] # 0 => /\ inbox[n] # <<>> /\ Head(inbox[n]).t = "incoming"
                   /\ Head(inbox[n]).c = mid[n] /\ up[mid[n]] = "welcome"
  /\ lstate[n] = "done" => inbox[n] = <<>>

\* stream() runs on a wire whose peer's end is on its way into the registry.
Kid(c, s) == c \in Opened /\ Parent(c) = s
KidInv(c, s) ==
  /\ s \in Ends /\ conns[c].to = Owner(Mirror(s)) /\ up[s[1]] = "welcome"
  /\ at[Mirror(s)] = "none" => up[c] # "welcome"

\* The wires that listeners register.
Registered(e) == IF e[2] = "in" THEN Parent(e[1]) = NoEnd ELSE conns[e[1]].bi

\* A wire is registered while its read half is held.
EndInv(e) ==
  \A n \in Node :
    /\ Forgets(inbox[n], e) => QueueGone(e)
    /\ e \in wires[n] => at[e] \notin {"none", "queued"} /\ e \in Ends /\ Registered(e)
    /\ e \in Ends /\ CanTake(e) /\ Registered(e) /\ n = Owner(e) /\ lstate[n] # "done"
         => e \in wires[n]

Distinct(q) == \A i, j \in DOMAIN q : q[i] = q[j] => i = j

\* The wires queued in a wire are those its peer's stream() opened, each once.
QueueInv(e) ==
  /\ incoming[e] # <<>> => e \in Ends /\ CanTake(e) /\ Registered(e)
  /\ \A i \in DOMAIN incoming[e] :
       \E c \in Conn : incoming[e][i] = In(c) /\ Kid(c, Mirror(e)) /\ at[In(c)] = "queued"
  /\ Distinct(incoming[e])
PlaceInv(e) == at[e] = "queued" => \E f \in End : InQueue(f, e)

\* One stream() runs on a wire at a time, so that the wires it opens are placed, and their
\* ids written, in the order it was called.
Rising(q) == \A i, j \in DOMAIN q : i < j => q[i][1] < q[j][1]
Sent(e, d) == \E i \in DOMAIN ids[e] : ids[e][i] = d
OrderInv(e) ==
  /\ \A c, d \in Conn :
       Kid(c, Mirror(e)) /\ Kid(d, Mirror(e)) /\ c < d =>
         /\ call[c] \in {"done", "failed"}
         /\ call[c] = "done" /\ at[In(d)] # "none" => at[In(c)] # "none"
  /\ \A i \in DOMAIN ids[e] :
       \E c \in Conn : ids[e][i] = In(c) /\ Kid(c, Mirror(e)) /\ call[c] = "done"
  /\ Rising(ids[e])

\* On a wire in step with its peer, the ids to come are those of the wires not yet taken.
InStep(e) == CanTake(e) /\ e \in Ends /\ Registered(e) /\ ~OutOfStep(Mirror(e))
StepInv(e) ==
  InStep(e) =>
    /\ Rising(incoming[e])
    /\ \A c \in Conn : Kid(c, Mirror(e)) =>
         /\ at[In(c)] \notin {"none", "queued"} => call[c] = "done" /\ ~Sent(e, In(c))
         /\ at[In(c)] \in {"none", "queued"} /\ call[c] = "done" => Sent(e, In(c))

ListenerInv ==
  /\ \A c \in Conn : EventInv(c) /\ ConnInv(c)
  /\ \A n \in Node : MidInv(n)
  /\ \A c \in Conn, s \in End : Kid(c, s) => KidInv(c, s)
  /\ \A e \in End : EndInv(e) /\ QueueInv(e) /\ PlaceInv(e) /\ OrderInv(e) /\ StepInv(e)

-----------------------------------------------------------------------------
(* Types.                                                                   *)

LEMMA EndFacts ==
  /\ \A c \in Conn : Out(c) \in End /\ In(c) \in End
  /\ \A c, d : /\ In(c) # Out(d) /\ (In(c) = In(d) => c = d) /\ (Out(c) = Out(d) => c = d)
               /\ In(c)[1] = c /\ In(c)[2] = "in" /\ Out(c)[1] = c /\ Out(c)[2] = "out"
  /\ \A e \in End : /\ e[1] \in Conn /\ (e = Out(e[1]) \/ e = In(e[1]))
                    /\ Mirror(e) \in End /\ Mirror(Mirror(e)) = e /\ Mirror(e)[1] = e[1]
                    /\ Mirror(e) # e
  /\ \A c : Mirror(Out(c)) = In(c) /\ Mirror(In(c)) = Out(c)
  /\ NoEnd \notin End
  BY DEF Out, In, End, Mirror, NoEnd, Conn

LEMMA MessageTypes ==
  /\ Shutdown \in WireListenerEvent
  /\ \A c \in Conn : Outgoing(c) \in WireListenerEvent
  /\ \A c \in Conn, reply \in BOOLEAN : Incoming(c, reply) \in WireListenerEvent
  /\ \A e \in End : DropWire(e) \in WireListenerEvent
  BY DEF WireListenerEvent, Shutdown, Outgoing, Incoming, DropWire

\* What is known of an opened connection.
LEMMA ConnTypes ==
  ASSUME TypeOK, NEW c \in Opened
  PROVE  /\ c \in Conn /\ conns[c].from \in Node /\ conns[c].to \in Node
         /\ Parent(c) \in End \cup {NoEnd} /\ conns[c].bi \in BOOLEAN
  <1>1. MaxConns \in Nat
    BY MaxConnsAssumption
  <1>2. c \in 1..Len(conns) /\ Len(conns) \in Nat /\ Len(conns) <= MaxConns
    BY DEF TypeOK, Opened
  <1>3. conns[c] \in [from : Node, to : Node, parent : End \cup {NoEnd}, bi : BOOLEAN]
    <2> DEFINE R == [from : Node, to : Node, parent : End \cup {NoEnd}, bi : BOOLEAN]
    <2>1. conns \in Seq(R)
      BY DEF TypeOK
    <2> HIDE DEF R
    <2>2. conns[c] \in R
      BY <1>2, <2>1
    <2> QED BY <2>2 DEF R
  <1> QED BY <1>1, <1>2, <1>3 DEF Conn, Parent

LEMMA EndTypes ==
  ASSUME TypeOK, NEW e \in Ends
  PROVE  /\ e \in End /\ e[1] \in Opened /\ Owner(e) \in Node
         /\ Mirror(e) \in Ends /\ Owner(Mirror(e)) \in Node
  <1>1. e[1] \in Opened /\ (e = Out(e[1]) \/ e = In(e[1]))
    BY EndFacts DEF Ends
  <1>2. e[1] \in Conn /\ conns[e[1]].from \in Node /\ conns[e[1]].to \in Node
    BY <1>1, ConnTypes
  <1> QED BY <1>1, <1>2, EndFacts DEF Ends, Owner

LEMMA PostType ==
  ASSUME inbox \in [Node -> Seq(WireListenerEvent)], NEW n \in Node,
         NEW m \in WireListenerEvent, Post(n, m)
  PROVE  inbox' \in [Node -> Seq(WireListenerEvent)]
  BY DEF Post

LEMMA PopType ==
  ASSUME inbox \in [Node -> Seq(WireListenerEvent)], NEW n \in Node, inbox[n] # <<>>, Pop(n)
  PROVE  inbox' \in [Node -> Seq(WireListenerEvent)]
  BY DEF Pop

LEMMA HeadType ==
  ASSUME TypeOK, NEW n \in Node, inbox[n] # <<>>
  PROVE  /\ Head(inbox[n]) \in WireListenerEvent
         /\ Head(inbox[n]).t \in {"outgoing", "incoming"} => Head(inbox[n]).c \in Conn
         /\ Head(inbox[n]).t = "incoming" => Head(inbox[n]).reply \in BOOLEAN
         /\ Head(inbox[n]).t = "drop" => Head(inbox[n]).e \in End
  <1>1. inbox[n] \in Seq(WireListenerEvent)
    BY DEF TypeOK
  <1>2. Head(inbox[n]) \in WireListenerEvent
    BY <1>1
  <1> QED BY <1>2 DEF WireListenerEvent, Shutdown

LEMMA DroppedType ==
  ASSUME at \in [End -> {"none", "queued", "held", "read_half", "write_half", "dropped"}],
         incoming \in [End -> Seq(End)], NEW E
  PROVE  /\ Dropped(E) \in [End -> {"none", "queued", "held", "read_half", "write_half", "dropped"}]
         /\ Emptied(E) \in [End -> Seq(End)]
  BY DEF Dropped, Emptied

LEMMA OpenType ==
  ASSUME TypeOK, NEW n \in Node, NEW m \in Node, NEW parent \in End \cup {NoEnd},
         NEW bi \in BOOLEAN, Open(n, m, parent, bi)
  PROVE  TypeOK'
  <1> DEFINE R == [from : Node, to : Node, parent : End \cup {NoEnd}, bi : BOOLEAN]
             c == Len(conns) + 1
             r == [from |-> n, to |-> m, parent |-> parent, bi |-> bi]
  <1>1. c \in Conn /\ c <= MaxConns /\ MaxConns \in Nat /\ Len(conns) \in Nat
    BY MaxConnsAssumption DEF Open, TypeOK, Conn
  <1>2. conns \in Seq(R) /\ conns' = Append(conns, r) /\ r \in R
    BY DEF Open, TypeOK
  <1>3. conns' \in Seq(R) /\ Len(conns') <= MaxConns /\ Opened \subseteq Opened'
    BY <1>1, <1>2 DEF Opened
  <1>4. waiting' \subseteq Opened'
    BY <1>3 DEF Open, TypeOK
  <1>5. /\ inbox' \in [Node -> Seq(WireListenerEvent)]
        /\ call' \in [Conn -> {"reply", "info", "done", "failed"}]
        /\ up' \in [Conn -> {"new", "hello", "accepted", "welcome", "lost"}]
        /\ at' \in [End -> {"none", "queued", "held", "read_half", "write_half", "dropped"}]
    <2>1. CASE bi
      <3>1. /\ Post(n, Outgoing(c)) /\ at' = at
            /\ call' = [call EXCEPT ![c] = IF lstate[n] = "open" THEN "reply" ELSE "failed"]
            /\ up' = [up EXCEPT ![c] = IF lstate[n] = "open" THEN "new" ELSE "lost"]
        BY <2>1 DEF Open
      <3>2. inbox' \in [Node -> Seq(WireListenerEvent)]
        BY <1>1, <3>1, MessageTypes, PostType DEF TypeOK
      <3> QED BY <3>1, <3>2 DEF TypeOK
    <2>2. CASE ~bi
      BY <2>2 DEF Open, TypeOK
    <2> QED BY <2>1, <2>2
  <1> QED BY <1>3, <1>4, <1>5 DEF TypeOK, Open

LEMMA FailsType ==
  ASSUME TypeOK, NEW c \in Conn, Fails(c)
  PROVE  /\ call' \in [Conn -> {"reply", "info", "done", "failed"}]
         /\ at' \in [End -> {"none", "queued", "held", "read_half", "write_half", "dropped"}]
         /\ incoming' \in [End -> Seq(End)]
  BY DroppedType DEF Fails, TypeOK

LEMMA ConnStepType ==
  ASSUME TypeOK, NEW c \in Opened, ConnStep(c) \/ Cancel(c)
  PROVE  TypeOK'
  <1>1. c \in Conn /\ conns[c].to \in Node /\ Parent(c) \in End \cup {NoEnd}
    BY ConnTypes
  <1>2. CASE InfoRead(c)
    <2>1. Opened' = Opened
      BY <1>2 DEF InfoRead, Opened
    <2>2. ids' \in [End -> Seq(End)]
      <3>1. In(c) \in End /\ ids \in [End -> Seq(End)]
        BY <1>1, EndFacts DEF TypeOK
      <3>2. CASE Parent(c) = NoEnd
        BY <1>2, <3>1, <3>2 DEF InfoRead
      <3>3. CASE Parent(c) # NoEnd
        <4>1. Mirror(Parent(c)) \in End
          BY <1>1, <3>3, EndFacts
        <4>2. ids' = [ids EXCEPT ![Mirror(Parent(c))] = Append(@, In(c))]
          BY <1>2, <3>3 DEF InfoRead
        <4> QED BY <3>1, <4>1, <4>2
      <3> QED BY <3>2, <3>3
    <2> QED BY <1>1, <1>2, <2>1, <2>2 DEF InfoRead, TypeOK
  <1>3. CASE InfoFails(c) \/ Cancel(c)
    <2>1. Fails(c) /\ UNCHANGED <<conns, up, waiting, ids, watch, inbox, lstate, wires, mid, handler>>
      BY <1>3 DEF InfoFails, Cancel
    <2>2. Opened' = Opened
      BY <2>1 DEF Opened
    <2> QED BY <1>1, <2>1, <2>2, FailsType DEF TypeOK
  <1>4. CASE Accept(c)
    <2>1. PICK reply \in BOOLEAN :
            /\ Post(conns[c].to, Incoming(c, reply))
            /\ waiting' = IF reply /\ lstate[conns[c].to] = "open"
                          THEN waiting \cup {c} ELSE waiting
      BY <1>4 DEF Accept
    <2>2. inbox' \in [Node -> Seq(WireListenerEvent)]
      BY <1>1, <2>1, MessageTypes, PostType DEF TypeOK
    <2>3. Opened' = Opened
      BY <1>4 DEF Accept, Opened
    <2>4. waiting' \subseteq Opened'
      BY <2>1, <2>3 DEF TypeOK
    <2> QED BY <1>1, <1>4, <2>2, <2>4 DEF Accept, TypeOK
  <1> QED BY <1>2, <1>3, <1>4 DEF ConnStep

\* A listener that has begun an event still has it in its inbox.
Busy == \A n \in Node : mid[n] # 0 => inbox[n] # <<>>

LEMMA ListenType ==
  ASSUME TypeOK, Busy, NEW n \in Node, ListenStep(n)
  PROVE  TypeOK'
  <1>1. CASE ListenOutgoing(n)
    <2>1. inbox[n] # <<>> /\ Pop(n) /\ Head(inbox[n]).t = "outgoing"
      BY <1>1 DEF ListenOutgoing, ListenAt
    <2> PICK c \in Conn : c = Head(inbox[n]).c
      BY <2>1, HeadType
    <2>2. inbox' \in [Node -> Seq(WireListenerEvent)]
      BY <2>1, PopType DEF TypeOK
    <2>3. Out(c) \in End
      BY EndFacts
    <2>4. /\ at' \in [End -> {"none", "queued", "held", "read_half", "write_half", "dropped"}]
          /\ call' \in [Conn -> {"reply", "info", "done", "failed"}]
      <3>1. \/ /\ at' = [at EXCEPT ![Out(c)] = "held"]
               /\ call' = [call EXCEPT ![c] = "info"]
            \/ at' = [at EXCEPT ![Out(c)] = "dropped"] /\ call' = call
        BY <1>1 DEF ListenOutgoing
      <3>2. CASE at' = [at EXCEPT ![Out(c)] = "held"] /\ call' = [call EXCEPT ![c] = "info"]
        BY <3>2 DEF TypeOK
      <3>3. CASE at' = [at EXCEPT ![Out(c)] = "dropped"] /\ call' = call
        BY <3>3 DEF TypeOK
      <3> QED BY <3>1, <3>2, <3>3
    <2>5. Opened' = Opened /\ wires' \in [Node -> SUBSET End]
      BY <1>1, <2>3 DEF ListenOutgoing, Opened, TypeOK
    <2> QED BY <1>1, <2>2, <2>4, <2>5 DEF ListenOutgoing, TypeOK
  <1>2. CASE ListenOutgoingFails(n)
    <2>1. inbox[n] # <<>> /\ Pop(n)
      BY <1>2 DEF ListenOutgoingFails, ListenAt
    <2>2. inbox' \in [Node -> Seq(WireListenerEvent)]
      BY <2>1, PopType DEF TypeOK
    <2>3. Opened' = Opened
      BY <1>2 DEF ListenOutgoingFails, Opened
    <2> QED BY <1>2, <2>2, <2>3 DEF ListenOutgoingFails, TypeOK
  <1>3. CASE ListenIncoming(n)
    <2>1. inbox[n] # <<>> /\ Head(inbox[n]).t = "incoming"
      BY <1>3 DEF ListenIncoming, ListenAt
    <2> PICK c \in Conn : c = Head(inbox[n]).c
      BY <2>1, HeadType
    <2>2. c \in 0..MaxConns
      BY MaxConnsAssumption DEF Conn
    <2>3. Opened' = Opened
      BY <1>3 DEF ListenIncoming, Opened
    <2> QED BY <1>3, <2>2, <2>3 DEF ListenIncoming, TypeOK
  <1>4. CASE ListenPlace(n)
    <2>1. Pop(n) /\ mid' = [mid EXCEPT ![n] = 0] /\ mid[n] # 0 /\ inbox[n] # <<>>
      BY <1>4 DEF ListenPlace, Busy
    <2> PICK c \in Conn : c = mid[n]
      BY <2>1, MaxConnsAssumption DEF TypeOK, Conn
    <2>2. In(c) \in End
      BY EndFacts
    <2>3. /\ at' \in [End -> {"none", "queued", "held", "read_half", "write_half", "dropped"}]
          /\ incoming' \in [End -> Seq(End)] /\ wires' \in [Node -> SUBSET End]
          /\ lstate' \in [Node -> {"open", "closed", "done"}]
      <3>1. CASE Parent(c) = NoEnd
        <4>1. HandOver(n, c, Head(inbox[n]).reply)
          BY <1>4, <3>1 DEF ListenPlace
        <4> QED BY <2>2, <4>1 DEF HandOver, TypeOK
      <3>2. CASE Parent(c) # NoEnd
        <4>1. Forward(n, c)
          BY <1>4, <3>2 DEF ListenPlace
        <4> PICK target : target = Mirror(Parent(c))
          OBVIOUS
        <4>2. /\ UNCHANGED <<wires, lstate>>
              /\ \/ /\ target \in wires[n]
                    /\ incoming' = [incoming EXCEPT ![target] = Append(@, In(c))]
                    /\ at' = [at EXCEPT ![In(c)] = "queued"]
                 \/ at' = [at EXCEPT ![In(c)] = "dropped"] /\ incoming' = incoming
          BY <4>1 DEF Forward
        <4>3. target \in wires[n] => target \in End
          BY DEF TypeOK
        <4>4. target \in End =>
                [incoming EXCEPT ![target] = Append(@, In(c))] \in [End -> Seq(End)]
          BY <2>2 DEF TypeOK
        <4>5. CASE /\ target \in wires[n]
                   /\ incoming' = [incoming EXCEPT ![target] = Append(@, In(c))]
                   /\ at' = [at EXCEPT ![In(c)] = "queued"]
          <5>1. incoming' \in [End -> Seq(End)]
            BY <4>3, <4>4, <4>5
          <5>2. at' \in [End -> {"none", "queued", "held", "read_half", "write_half", "dropped"}]
            BY <4>5 DEF TypeOK
          <5> QED BY <4>2, <5>1, <5>2 DEF TypeOK
        <4>6. CASE at' = [at EXCEPT ![In(c)] = "dropped"] /\ incoming' = incoming
          BY <4>2, <4>6 DEF TypeOK
        <4> QED BY <4>2, <4>5, <4>6
      <3> QED BY <3>1, <3>2
    <2>4. inbox' \in [Node -> Seq(WireListenerEvent)]
      BY <2>1, PopType DEF TypeOK
    <2>5. mid' \in [Node -> 0..MaxConns]
      BY <2>1, MaxConnsAssumption DEF TypeOK
    <2>6. Opened' = Opened /\ UNCHANGED <<conns, up, call, ids, handler>>
      BY <1>4 DEF ListenPlace, Opened
    <2>7. watch' \in [End -> {"none", "spawned", "ended"}] /\ waiting' \subseteq Opened
      BY <1>4 DEF ListenPlace, TypeOK
    <2> QED BY <2>3, <2>4, <2>5, <2>6, <2>7 DEF TypeOK
  <1>5. CASE ListenDrop(n) \/ ListenShutdown(n)
    <2>1. inbox[n] # <<>> /\ Pop(n)
      BY <1>5 DEF ListenDrop, ListenShutdown, ListenAt
    <2>2. inbox' \in [Node -> Seq(WireListenerEvent)]
      BY <2>1, PopType DEF TypeOK
    <2>3. Opened' = Opened
      BY <1>5 DEF ListenDrop, ListenShutdown, Opened
    <2>4. CASE ListenDrop(n)
      BY <2>2, <2>3, <2>4 DEF ListenDrop, TypeOK
    <2>5. CASE ListenShutdown(n)
      BY <2>2, <2>3, <2>5 DEF ListenShutdown, TypeOK
    <2> QED BY <1>5, <2>4, <2>5
  <1>6. CASE ListenEnd(n)
    <2>1. Opened' = Opened
      BY <1>6 DEF ListenEnd, Opened
    <2> QED BY <1>6, <2>1 DEF ListenEnd, TypeOK
  <1> QED BY <1>1, <1>2, <1>3, <1>4, <1>5, <1>6 DEF ListenStep

LEMMA WireStepType ==
  ASSUME TypeOK, NEW e \in Ends,
         \/ StreamOn(e) \/ TakeStream(e) \/ SignalDrop(e)
         \/ DropStream(e) \/ DropReadHalf(e) \/ DropWriteHalf(e)
  PROVE  TypeOK'
  <1>1. e \in End /\ Owner(e) \in Node /\ Owner(Mirror(e)) \in Node /\ e[1] \in Opened
    BY EndTypes
  <1>2. CASE StreamOn(e)
    <2>1. conns[e[1]].bi \in BOOLEAN
      BY <1>1, ConnTypes
    <2>2. Open(Owner(e), Owner(Mirror(e)), e, conns[e[1]].bi)
      BY <1>2 DEF StreamOn
    <2> QED BY <1>1, <2>1, <2>2, OpenType
  <1>3. CASE TakeStream(e)
    <2>1. UNCHANGED <<conns, up, call, waiting, watch, inbox, lstate, wires, mid, handler>>
      BY <1>3 DEF TakeStream
    <2>2. Opened' = Opened
      BY <2>1 DEF Opened
    <2>3. ids' \in [End -> Seq(End)]
      <3>1. ids[e] \in Seq(End) /\ ids[e] # <<>> /\ ids' = [ids EXCEPT ![e] = Tail(@)]
        BY <1>1, <1>3 DEF TakeStream, TypeOK
      <3>2. Tail(ids[e]) \in Seq(End)
        BY <3>1
      <3> QED BY <3>1, <3>2 DEF TypeOK
    <2>4. /\ at' \in [End -> {"none", "queued", "held", "read_half", "write_half", "dropped"}]
          /\ incoming' \in [End -> Seq(End)]
      <3>1. CASE incoming[e] # <<>>
        <4>1. incoming[e] \in Seq(End)
          BY <1>1 DEF TypeOK
        <4>2. Tail(incoming[e]) \in Seq(End)
          BY <3>1, <4>1
        <4> QED BY <1>3, <3>1, <4>2 DEF TakeStream, TypeOK
      <3>2. CASE incoming[e] = <<>>
        BY <1>3, <3>2 DEF TakeStream, TypeOK
      <3> QED BY <3>1, <3>2
    <2> QED BY <2>1, <2>2, <2>3, <2>4 DEF TypeOK
  <1>4. CASE SignalDrop(e)
    <2>1. Opened' = Opened
      BY <1>4 DEF SignalDrop, Opened
    <2>2. inbox' \in [Node -> Seq(WireListenerEvent)]
      BY <1>1, <1>4, MessageTypes, PostType DEF SignalDrop, TypeOK
    <2> QED BY <1>4, <2>1, <2>2 DEF SignalDrop, TypeOK
  <1>5. CASE DropStream(e) \/ DropReadHalf(e) \/ DropWriteHalf(e)
    <2>1. /\ UNCHANGED <<conns, up, call, waiting, ids, watch, inbox, lstate, wires, mid, handler>>
          /\ \/ at' = Dropped({e}) /\ incoming' = Emptied({e})
             \/ at' = [Dropped({e}) EXCEPT ![e] = "write_half"] /\ incoming' = Emptied({e})
             \/ at' = [at EXCEPT ![e] = "read_half"] /\ incoming' = incoming
      BY <1>5 DEF DropStream, DropReadHalf, DropWriteHalf
    <2>2. Opened' = Opened
      BY <2>1 DEF Opened
    <2>3. /\ Dropped({e}) \in [End -> {"none", "queued", "held", "read_half", "write_half", "dropped"}]
          /\ Emptied({e}) \in [End -> Seq(End)]
      BY DroppedType DEF TypeOK
    <2>4. /\ at' \in [End -> {"none", "queued", "held", "read_half", "write_half", "dropped"}]
          /\ incoming' \in [End -> Seq(End)]
      <3>1. CASE at' = Dropped({e}) /\ incoming' = Emptied({e})
        BY <2>3, <3>1
      <3>2. CASE at' = [Dropped({e}) EXCEPT ![e] = "write_half"] /\ incoming' = Emptied({e})
        BY <2>3, <3>2
      <3>3. CASE at' = [at EXCEPT ![e] = "read_half"] /\ incoming' = incoming
        BY <3>3 DEF TypeOK
      <3> QED BY <2>1, <3>1, <3>2, <3>3
    <2> QED BY <2>1, <2>2, <2>4 DEF TypeOK
  <1> QED BY <1>2, <1>3, <1>4, <1>5

LEMMA TypeInit == ASSUME Init PROVE TypeOK
  <1>1. MaxConns \in Nat
    BY MaxConnsAssumption
  <1>2. conns = <<>> /\ Len(conns) = 0 /\ Opened = {}
    BY DEF Init, Opened
  <1> QED BY <1>1, <1>2 DEF Init, TypeOK

LEMMA PostBusy ==
  ASSUME TypeOK, Busy, NEW n \in Node, NEW m, Post(n, m), mid' = mid
  PROVE  Busy'
  <1> SUFFICES ASSUME NEW k \in Node, mid[k] # 0 PROVE inbox'[k] # <<>>
    BY DEF Busy
  <1>1. inbox[k] # <<>> /\ inbox \in [Node -> Seq(WireListenerEvent)]
    BY DEF Busy, TypeOK
  <1>2. Append(inbox[n], m) # <<>>
    BY <1>1
  <1> QED BY <1>1, <1>2 DEF Post

LEMMA BusyNext ==
  ASSUME TypeOK, Busy, [Next]_vars
  PROVE  Busy'
  <1>1. CASE UNCHANGED <<mid, inbox>>
    BY <1>1 DEF Busy
  <1>2. ASSUME NEW n, NEW m, NEW parent, NEW bi, n \in Node, Open(n, m, parent, bi)
        PROVE  Busy'
    <2>1. CASE bi
      BY <1>2, <2>1, PostBusy DEF Open
    <2>2. CASE ~bi
      BY <1>1, <1>2, <2>2 DEF Open
    <2> QED BY <2>1, <2>2
  <1>3. ASSUME NEW n \in Node, ListenStep(n)
        PROVE  Busy'
    <2>1. CASE ListenIncoming(n)
      BY <2>1 DEF ListenIncoming, ListenAt, Busy
    <2>2. CASE ListenPlace(n)
      <3>1. mid' = [mid EXCEPT ![n] = 0] /\ inbox' = [inbox EXCEPT ![n] = Tail(@)]
        BY <2>2 DEF ListenPlace, Pop
      <3> QED BY <3>1 DEF Busy, TypeOK
    <2>3. CASE \/ ListenOutgoing(n) \/ ListenOutgoingFails(n)
               \/ ListenDrop(n) \/ ListenShutdown(n)
      <3>1. mid[n] = 0 /\ mid' = mid /\ inbox' = [inbox EXCEPT ![n] = Tail(@)]
        BY <2>3 DEF ListenOutgoing, ListenOutgoingFails, ListenDrop, ListenShutdown,
                    ListenAt, Pop
      <3> QED BY <3>1 DEF Busy, TypeOK
    <2>4. CASE ListenEnd(n)
      BY <1>1, <2>4 DEF ListenEnd
    <2> QED BY <1>3, <2>1, <2>2, <2>3, <2>4 DEF ListenStep
  <1>4. ASSUME NEW c \in Opened, ConnStep(c) \/ Cancel(c)
        PROVE  Busy'
    <2>1. CASE Accept(c)
      <3>1. conns[c].to \in Node
        BY ConnTypes
      <3> QED BY <2>1, <3>1, PostBusy DEF Accept
    <2>2. CASE InfoRead(c) \/ InfoFails(c) \/ Cancel(c)
      BY <1>1, <2>2 DEF InfoRead, InfoFails, Cancel
    <2> QED BY <1>4, <2>1, <2>2 DEF ConnStep
  <1>5. ASSUME NEW e \in Ends, StreamOn(e) \/ SignalDrop(e)
        PROVE  Busy'
    <2>1. Owner(e) \in Node
      BY EndTypes
    <2>2. CASE StreamOn(e)
      BY <1>2, <2>1, <2>2 DEF StreamOn
    <2>3. CASE SignalDrop(e)
      BY <2>1, <2>3, PostBusy DEF SignalDrop
    <2> QED BY <1>5, <2>2, <2>3
  <1>6. ASSUME NEW e \in Ends,
               TakeStream(e) \/ DropStream(e) \/ DropReadHalf(e) \/ DropWriteHalf(e)
        PROVE  Busy'
    BY <1>1, <1>6 DEF TakeStream, DropStream, DropReadHalf, DropWriteHalf
  <1>7. ASSUME NEW n \in Node, NEW m \in Node, Connect(n, m)
        PROVE  Busy'
    BY <1>2, <1>7 DEF Connect
  <1>8. ASSUME NEW n \in Node, ShutdownListener(n) \/ GoDeaf(n)
        PROVE  Busy'
    <2>1. CASE ShutdownListener(n)
      BY <2>1, PostBusy DEF ShutdownListener
    <2>2. CASE GoDeaf(n)
      BY <1>1, <2>2 DEF GoDeaf
    <2> QED BY <1>8, <2>1, <2>2
  <1> QED BY <1>1, <1>3, <1>4, <1>5, <1>6, <1>7, <1>8 DEF Next, vars

LEMMA TypeNext ==
  ASSUME TypeOK, Busy, [Next]_vars
  PROVE  TypeOK'
  <1>1. CASE UNCHANGED vars
    <2>1. Opened' = Opened
      BY <1>1 DEF vars, Opened
    <2> QED BY <1>1, <2>1 DEF vars, TypeOK
  <1>2. ASSUME NEW n \in Node, NEW m \in Node, Connect(n, m) PROVE TypeOK'
    BY <1>2, OpenType DEF Connect
  <1>3. ASSUME NEW n \in Node, ListenStep(n) PROVE TypeOK'
    BY <1>3, ListenType
  <1>4. ASSUME NEW n \in Node, ShutdownListener(n) PROVE TypeOK'
    <2>1. Opened' = Opened
      BY <1>4 DEF ShutdownListener, Opened
    <2>2. inbox' \in [Node -> Seq(WireListenerEvent)]
      BY <1>4, MessageTypes, PostType DEF ShutdownListener, TypeOK
    <2> QED BY <1>4, <2>1, <2>2 DEF ShutdownListener, TypeOK
  <1>5. ASSUME NEW n \in Node, GoDeaf(n) PROVE TypeOK'
    <2>1. Opened' = Opened
      BY <1>5 DEF GoDeaf, Opened
    <2> QED BY <1>5, <2>1 DEF GoDeaf, TypeOK
  <1>6. ASSUME NEW c \in Opened, ConnStep(c) \/ Cancel(c) PROVE TypeOK'
    BY <1>6, ConnStepType
  <1>7. ASSUME NEW e \in Ends,
               \/ StreamOn(e) \/ TakeStream(e) \/ SignalDrop(e)
               \/ DropStream(e) \/ DropReadHalf(e) \/ DropWriteHalf(e)
        PROVE  TypeOK'
    BY <1>7, WireStepType
  <1> QED BY <1>1, <1>2, <1>3, <1>4, <1>5, <1>6, <1>7 DEF Next

\* Every state variable of the listeners keeps its type, for any number of nodes,
\* connections and steps.
THEOREM ListenerTypes == Spec => []TypeOK
  <1>1. Init => TypeOK /\ Busy
    BY TypeInit DEF Init, Busy
  <1>2. TypeOK /\ Busy /\ [Next]_vars => (TypeOK /\ Busy)'
    BY TypeNext, BusyNext
  <1> QED BY <1>1, <1>2, PTL DEF Spec

-----------------------------------------------------------------------------
(* What a step does to an inbox and to a queue.                             *)

LEMMA TailAwaits ==
  ASSUME NEW q \in Seq(WireListenerEvent), q # <<>>, NEW t, NEW c
  PROVE  /\ Awaits(Tail(q), t, c) => Awaits(q, t, c)
         /\ Single(q, t, c) => Single(Tail(q), t, c)
         /\ Head(q).t = t /\ Head(q).c = c => Awaits(q, t, c)
         /\ Single(q, t, c) /\ Head(q).t = t /\ Head(q).c = c => ~Awaits(Tail(q), t, c)
  <1>1. /\ Len(q) \in Nat /\ Len(q) > 0 /\ DOMAIN q = 1..Len(q) /\ q[1] = Head(q)
        /\ DOMAIN Tail(q) = 1..(Len(q) - 1)
        /\ \A i \in 1..(Len(q) - 1) : i + 1 \in 1..Len(q) /\ Tail(q)[i] = q[i + 1]
    OBVIOUS
  <1>2. Awaits(Tail(q), t, c) => Awaits(q, t, c)
    BY <1>1 DEF Awaits
  <1>3. Single(q, t, c) => Single(Tail(q), t, c)
    <2> SUFFICES ASSUME Single(q, t, c), NEW i \in 1..(Len(q) - 1), NEW j \in 1..(Len(q) - 1),
                        Tail(q)[i].t = t, Tail(q)[i].c = c, Tail(q)[j].t = t, Tail(q)[j].c = c
                 PROVE  i = j
      BY <1>1 DEF Single
    <2>1. i + 1 = j + 1
      BY <1>1 DEF Single
    <2> QED BY <2>1
  <1>4. Head(q).t = t /\ Head(q).c = c => Awaits(q, t, c)
    BY <1>1 DEF Awaits
  <1>5. ASSUME Single(q, t, c), Head(q).t = t, Head(q).c = c, Awaits(Tail(q), t, c)
        PROVE  FALSE
    <2>1. PICK i \in 1..(Len(q) - 1) : Tail(q)[i].t = t /\ Tail(q)[i].c = c
      BY <1>1, <1>5 DEF Awaits
    <2>2. i + 1 = 1
      BY <1>1, <1>5, <2>1 DEF Single
    <2> QED BY <2>2
  <1> QED BY <1>2, <1>3, <1>4, <1>5

LEMMA AppendAwaits ==
  ASSUME NEW q \in Seq(WireListenerEvent), NEW m \in WireListenerEvent, NEW t, NEW c
  PROVE  /\ Awaits(Append(q, m), t, c) => Awaits(q, t, c) \/ (m.t = t /\ m.c = c)
         /\ Single(q, t, c) /\ ~(Awaits(q, t, c) /\ m.t = t /\ m.c = c)
              => Single(Append(q, m), t, c)
  <1> DEFINE r == Append(q, m)
  <1>1. /\ Len(q) \in Nat /\ DOMAIN q = 1..Len(q)
        /\ DOMAIN r = 1..(Len(q) + 1) /\ r[Len(q) + 1] = m
        /\ \A i \in 1..Len(q) : r[i] = q[i]
    OBVIOUS
  <1> HIDE DEF r
  <1>2. \A i \in DOMAIN r : \/ i \in DOMAIN q /\ r[i] = q[i]
                            \/ i = Len(q) + 1 /\ r[i] = m
    <2>1. \A i \in 1..(Len(q) + 1) : i \in 1..Len(q) \/ i = Len(q) + 1
      BY <1>1
    <2> QED BY <1>1, <2>1
  <1>3. Awaits(r, t, c) => Awaits(q, t, c) \/ (m.t = t /\ m.c = c)
    BY <1>2 DEF Awaits
  <1>4. ASSUME Single(q, t, c), ~(Awaits(q, t, c) /\ m.t = t /\ m.c = c)
        PROVE  Single(r, t, c)
    BY <1>2, <1>4 DEF Awaits, Single
  <1> QED BY <1>3, <1>4 DEF r

\* The first event of n's inbox leaves it.
LEMMA PopEvents ==
  ASSUME TypeOK, NEW n \in Node, inbox[n] # <<>>, Pop(n)
  PROVE  /\ \A k \in Node :
              /\ k # n => inbox'[k] = inbox[k]
              /\ \A t, c : /\ Awaits(inbox'[k], t, c) => Awaits(inbox[k], t, c)
                           /\ Single(inbox[k], t, c) => Single(inbox'[k], t, c)
              /\ \A e : Forgets(inbox'[k], e) => Forgets(inbox[k], e)
              /\ inbox[k] = <<>> => inbox'[k] = <<>>
         /\ \A t, c : Head(inbox[n]).t = t /\ Head(inbox[n]).c = c =>
              /\ Awaits(inbox[n], t, c)
              /\ Single(inbox[n], t, c) => ~Awaits(inbox'[n], t, c)
  <1>1. /\ inbox[n] \in Seq(WireListenerEvent) /\ inbox'[n] = Tail(inbox[n])
        /\ \A k \in Node : k # n => inbox'[k] = inbox[k]
    BY DEF TypeOK, Pop
  <1>2. \A e : Forgets(Tail(inbox[n]), e) => Forgets(inbox[n], e)
    <2>1. /\ DOMAIN Tail(inbox[n]) = 1..(Len(inbox[n]) - 1)
          /\ \A i \in 1..(Len(inbox[n]) - 1) :
               i + 1 \in DOMAIN inbox[n] /\ Tail(inbox[n])[i] = inbox[n][i + 1]
      BY <1>1
    <2> QED BY <2>1 DEF Forgets
  <1> QED BY <1>1, <1>2, TailAwaits

\* An event m comes to n's inbox, or is lost because that is closed.
LEMMA PostEvents ==
  ASSUME TypeOK, NEW n \in Node, NEW m \in WireListenerEvent, Post(n, m)
  PROVE  \A k \in Node :
           /\ k # n \/ lstate[n] # "open" => inbox'[k] = inbox[k]
           /\ \A t, c : 
                /\ Awaits(inbox'[k], t, c) =>
                     \/ Awaits(inbox[k], t, c)
                     \/ k = n /\ lstate[n] = "open" /\ m.t = t /\ m.c = c
                /\ Single(inbox[k], t, c) /\ ~(Awaits(inbox[k], t, c) /\ m.t = t /\ m.c = c)
                     => Single(inbox'[k], t, c)
           /\ \A e : Forgets(inbox'[k], e) => Forgets(inbox[k], e) \/ m = DropWire(e)
           /\ inbox[k] # <<>> => inbox'[k] # <<>> /\ Head(inbox'[k]) = Head(inbox[k])
  <1>1. inbox \in [Node -> Seq(WireListenerEvent)]
    BY DEF TypeOK
  <1>2. CASE lstate[n] # "open"
    <2>1. inbox' = inbox
      BY <1>2 DEF Post
    <2> QED BY <2>1
  <1>3. CASE lstate[n] = "open"
    <2>1. /\ inbox[n] \in Seq(WireListenerEvent) /\ inbox'[n] = Append(inbox[n], m)
          /\ \A k \in Node : k # n => inbox'[k] = inbox[k]
      BY <1>1, <1>3 DEF Post
    <2>2. \A e : Forgets(Append(inbox[n], m), e) => Forgets(inbox[n], e) \/ m = DropWire(e)
      <3>1. \A i \in DOMAIN Append(inbox[n], m) :
              \/ i \in DOMAIN inbox[n] /\ Append(inbox[n], m)[i] = inbox[n][i]
              \/ Append(inbox[n], m)[i] = m
        BY <2>1
      <3> QED BY <3>1 DEF Forgets
    <2>3. inbox[n] # <<>> =>
            Append(inbox[n], m) # <<>> /\ Head(Append(inbox[n], m)) = Head(inbox[n])
      BY <2>1
    <2>4. \A t, c :
            /\ Awaits(inbox'[n], t, c) => Awaits(inbox[n], t, c) \/ (m.t = t /\ m.c = c)
            /\ Single(inbox[n], t, c) /\ ~(Awaits(inbox[n], t, c) /\ m.t = t /\ m.c = c)
                 => Single(inbox'[n], t, c)
      BY <2>1, AppendAwaits
    <2> SUFFICES ASSUME NEW k \in Node
                 PROVE  /\ k # n => inbox'[k] = inbox[k]
                        /\ \A t, c :
                             /\ Awaits(inbox'[k], t, c) =>
                                  Awaits(inbox[k], t, c) \/ (k = n /\ m.t = t /\ m.c = c)
                             /\ Single(inbox[k], t, c)
                                 /\ ~(Awaits(inbox[k], t, c) /\ m.t = t /\ m.c = c)
                                  => Single(inbox'[k], t, c)
                        /\ \A e : Forgets(inbox'[k], e) => Forgets(inbox[k], e) \/ m = DropWire(e)
                        /\ inbox[k] # <<>> => inbox'[k] # <<>> /\ Head(inbox'[k]) = Head(inbox[k])
      BY <1>3
    <2>5. CASE k = n
      BY <2>1, <2>2, <2>3, <2>4, <2>5
    <2>6. CASE k # n
      <3>1. inbox'[k] = inbox[k]
        BY <2>1, <2>6
      <3> QED BY <2>6, <3>1
    <2> QED BY <2>5, <2>6
  <1> QED BY <1>2, <1>3

\* A wire waits in one queue, that of a wire whose peer's stream() opened it.
LEMMA QueuedFacts ==
  ASSUME TypeOK, ListenerInv, NEW e \in End, NEW d, InQueue(e, d)
  PROVE  /\ \E c \in Conn : d = In(c) /\ Kid(c, Mirror(e))
         /\ at[d] = "queued" /\ d \in End
         /\ \A f \in End : InQueue(f, d) => f = e
         /\ incoming[e] # <<>>
  <1>1. \A f \in End : InQueue(f, d) =>
          \E c \in Conn : d = In(c) /\ Kid(c, Mirror(f)) /\ at[d] = "queued"
    BY DEF ListenerInv, QueueInv, InQueue
  <1>2. PICK c \in Conn : d = In(c) /\ Kid(c, Mirror(e)) /\ at[d] = "queued"
    BY <1>1
  <1>3. ASSUME NEW f \in End, InQueue(f, d) PROVE f = e
    <2>1. Mirror(f) = Mirror(e)
      BY <1>1, <1>2, <1>3, EndFacts DEF Kid
    <2> QED BY <2>1, EndFacts
  <1>4. incoming[e] # <<>>
    BY DEF InQueue
  <1> QED BY <1>2, <1>3, <1>4, EndFacts

LEMMA TailEntries ==
  ASSUME NEW q \in Seq(End), q # <<>>
  PROVE  /\ \A i \in DOMAIN Tail(q) : i + 1 \in DOMAIN q /\ Tail(q)[i] = q[i + 1]
         /\ \A i \in DOMAIN q : q[i] = Head(q) \/ \E j \in DOMAIN Tail(q) : Tail(q)[j] = q[i]
         /\ 1 \in DOMAIN q /\ q[1] = Head(q)
         /\ Rising(q) => Rising(Tail(q)) /\ \A i \in DOMAIN Tail(q) : Head(q)[1] < Tail(q)[i][1]
         /\ Distinct(q) => Distinct(Tail(q)) /\ \A i \in DOMAIN Tail(q) : Tail(q)[i] # Head(q)
  <1>1. /\ Len(q) \in Nat /\ Len(q) > 0 /\ DOMAIN q = 1..Len(q) /\ q[1] = Head(q)
        /\ DOMAIN Tail(q) = 1..(Len(q) - 1)
        /\ \A i \in 1..(Len(q) - 1) : i + 1 \in 1..Len(q) /\ Tail(q)[i] = q[i + 1]
    OBVIOUS
  <1>2. ASSUME NEW i \in DOMAIN q
        PROVE  q[i] = Head(q) \/ \E j \in DOMAIN Tail(q) : Tail(q)[j] = q[i]
    <2>1. CASE i = 1
      BY <1>1, <2>1
    <2>2. CASE i # 1
      <3>1. i - 1 \in 1..(Len(q) - 1) /\ (i - 1) + 1 = i
        BY <1>1, <2>2
      <3> QED BY <1>1, <3>1
    <2> QED BY <2>1, <2>2
  <1>3. ASSUME Rising(q)
        PROVE  Rising(Tail(q)) /\ \A i \in DOMAIN Tail(q) : Head(q)[1] < Tail(q)[i][1]
    <2>1. \A i, j \in 1..(Len(q) - 1) : i < j => i + 1 < j + 1
      BY <1>1
    <2>2. \A i \in 1..(Len(q) - 1) : 1 < i + 1 /\ 1 \in 1..Len(q)
      BY <1>1
    <2>3. \A i \in 1..(Len(q) - 1) : Head(q)[1] < Tail(q)[i][1]
      BY <1>1, <1>3, <2>2 DEF Rising
    <2>4. Rising(Tail(q))
      BY <1>1, <1>3, <2>1 DEF Rising
    <2> QED BY <1>1, <2>3, <2>4
  <1>4. ASSUME Distinct(q)
        PROVE  Distinct(Tail(q)) /\ \A i \in DOMAIN Tail(q) : Tail(q)[i] # Head(q)
    <2>1. \A i, j \in 1..(Len(q) - 1) : i + 1 = j + 1 => i = j
      BY <1>1
    <2>2. \A i \in 1..(Len(q) - 1) : 1 # i + 1 /\ 1 \in 1..Len(q)
      BY <1>1
    <2> QED BY <1>1, <1>4, <2>1, <2>2 DEF Distinct
  <1> QED BY <1>1, <1>2, <1>3, <1>4

LEMMA AppendEntries ==
  ASSUME NEW q \in Seq(End), NEW d \in End
  PROVE  /\ \A i \in DOMAIN Append(q, d) : \/ i \in DOMAIN q /\ Append(q, d)[i] = q[i]
                                           \/ Append(q, d)[i] = d
         /\ \A i \in DOMAIN q : i \in DOMAIN Append(q, d) /\ Append(q, d)[i] = q[i]
         /\ \E i \in DOMAIN Append(q, d) : Append(q, d)[i] = d
         /\ Rising(q) /\ (\A i \in DOMAIN q : q[i][1] < d[1]) => Rising(Append(q, d))
         /\ Distinct(q) /\ (\A i \in DOMAIN q : q[i] # d) => Distinct(Append(q, d))
  <1> DEFINE r == Append(q, d)
  <1>1. /\ Len(q) \in Nat /\ DOMAIN q = 1..Len(q)
        /\ DOMAIN r = 1..(Len(q) + 1) /\ r[Len(q) + 1] = d
        /\ \A i \in 1..Len(q) : r[i] = q[i] /\ i \in 1..(Len(q) + 1)
    OBVIOUS
  <1> HIDE DEF r
  <1>2. \A i \in DOMAIN r : \/ i \in DOMAIN q /\ r[i] = q[i]
                            \/ i = Len(q) + 1 /\ r[i] = d
    <2>1. \A i \in 1..(Len(q) + 1) : i \in 1..Len(q) \/ i = Len(q) + 1
      BY <1>1
    <2> QED BY <1>1, <2>1
  <1>3. ASSUME Rising(q), \A i \in DOMAIN q : q[i][1] < d[1] PROVE Rising(r)
    <2>1. \A i, j \in DOMAIN r : i < j => i \in DOMAIN q /\ r[i] = q[i]
      BY <1>1
    <2> QED BY <1>2, <1>3, <2>1 DEF Rising
  <1>4. ASSUME Distinct(q), \A i \in DOMAIN q : q[i] # d PROVE Distinct(r)
    BY <1>2, <1>4 DEF Distinct
  <1>5. Len(q) + 1 \in DOMAIN r
    BY <1>1
  <1>6. \E i \in DOMAIN r : r[i] = d
    BY <1>1, <1>5
  <1>7. /\ \A i \in DOMAIN r : (i \in DOMAIN q /\ r[i] = q[i]) \/ r[i] = d
        /\ \A i \in DOMAIN q : i \in DOMAIN r /\ r[i] = q[i]
    BY <1>1, <1>2
  <1> QED BY <1>3, <1>4, <1>6, <1>7 DEF r

-----------------------------------------------------------------------------
(* What leaves the parts of the invariant alone.                            *)

LEMMA KidKeep ==
  ASSUME TypeOK, ListenerInv, NEW c \in Conn, NEW s \in End, Kid(c, s)', conns' = conns,
         \A k \in Conn : up'[k] = "welcome" <=> up[k] = "welcome",
         \A e \in End : at'[e] = "none" => at[e] = "none"
  PROVE  KidInv(c, s)'
  <1>1. Kid(c, s) /\ KidInv(c, s)
    BY DEF ListenerInv, Kid, Opened, Parent
  <1>2. s[1] \in Conn /\ Mirror(s) \in End
    BY EndFacts
  <1>3. s \in Ends' /\ conns'[c].to = Owner(Mirror(s))'
    BY <1>1 DEF KidInv, Ends, Opened, Owner
  <1> QED BY <1>1, <1>2, <1>3 DEF KidInv

LEMMA QueueKeep ==
  ASSUME TypeOK, ListenerInv, NEW e \in End, conns' = conns, incoming'[e] = incoming[e],
         incoming[e] # <<>> /\ CanTake(e) => CanTake(e)',
         \A d : InQueue(e, d) => at'[d] = at[d]
  PROVE  QueueInv(e)'
  <1>1. QueueInv(e)
    BY DEF ListenerInv
  <1>2. incoming'[e] # <<>> => e \in Ends' /\ CanTake(e)' /\ Registered(e)'
    BY <1>1 DEF QueueInv, Ends, Opened, Registered, Parent
  <1>3. ASSUME NEW i \in DOMAIN incoming[e]
        PROVE  \E c \in Conn : incoming[e][i] = In(c) /\ Kid(c, Mirror(e))' /\ at'[In(c)] = "queued"
    <2>1. PICK c \in Conn : incoming[e][i] = In(c) /\ Kid(c, Mirror(e)) /\ at[In(c)] = "queued"
      BY <1>1 DEF QueueInv
    <2>2. at'[In(c)] = at[In(c)]
      BY <2>1 DEF InQueue
    <2>3. Kid(c, Mirror(e))'
      BY <2>1 DEF Kid, Opened, Parent
    <2> QED BY <2>1, <2>2, <2>3
  <1> QED BY <1>1, <1>2, <1>3 DEF QueueInv

LEMMA OrderKeep ==
  ASSUME TypeOK, ListenerInv, NEW e \in End, conns' = conns,
         \/ ids'[e] = ids[e]
         \/ ids[e] # <<>> /\ ids'[e] = Tail(ids[e]),
         \A c \in Conn : /\ call[c] \in {"done", "failed"} => call'[c] = call[c]
                         /\ call'[c] = "done" => call[c] = "done"
                         /\ at'[In(c)] = "none" <=> at[In(c)] = "none"
  PROVE  OrderInv(e)'
  <1>1. OrderInv(e) /\ ids[e] \in Seq(End)
    BY DEF ListenerInv, TypeOK
  <1>2. \A c \in Conn : Kid(c, Mirror(e))' <=> Kid(c, Mirror(e))
    BY DEF Kid, Opened, Parent
  <1>3. \A c, d \in Conn :
          Kid(c, Mirror(e))' /\ Kid(d, Mirror(e))' /\ c < d =>
            /\ call'[c] \in {"done", "failed"}
            /\ call'[c] = "done" /\ at'[In(d)] # "none" => at'[In(c)] # "none"
    BY <1>1, <1>2 DEF OrderInv
  <1>4. /\ \A i \in DOMAIN ids'[e] : \E j \in DOMAIN ids[e] : ids'[e][i] = ids[e][j]
        /\ Rising(ids'[e])
    <2>1. CASE ids'[e] = ids[e]
      BY <1>1, <2>1 DEF OrderInv
    <2>2. CASE ids[e] # <<>> /\ ids'[e] = Tail(ids[e])
      <3>1. /\ \A i \in DOMAIN Tail(ids[e]) : i + 1 \in DOMAIN ids[e] /\ Tail(ids[e])[i] = ids[e][i + 1]
            /\ Rising(Tail(ids[e]))
        BY <1>1, <2>2, TailEntries DEF OrderInv
      <3> QED BY <2>2, <3>1
    <2> QED BY <2>1, <2>2
  <1>5. ASSUME NEW i \in DOMAIN ids'[e]
        PROVE  \E c \in Conn : ids'[e][i] = In(c) /\ Kid(c, Mirror(e))' /\ call'[c] = "done"
    <2>1. PICK j \in DOMAIN ids[e] : ids'[e][i] = ids[e][j]
      BY <1>4
    <2>2. PICK c \in Conn : ids[e][j] = In(c) /\ Kid(c, Mirror(e)) /\ call[c] = "done"
      BY <1>1 DEF OrderInv
    <2> QED BY <1>2, <2>1, <2>2
  <1> QED BY <1>3, <1>4, <1>5 DEF OrderInv

LEMMA StepKeep ==
  ASSUME TypeOK, ListenerInv, NEW e \in End, conns' = conns, ids'[e] = ids[e],
         incoming'[e] = incoming[e], CanTake(e)' => CanTake(e),
         \A c \in Conn : /\ call[c] = "failed" => call'[c] = "failed"
                         /\ call'[c] = "done" <=> call[c] = "done",
         \A c \in Conn : Kid(c, Mirror(e)) /\ call'[c] # "failed" =>
           (at'[In(c)] \in {"none", "queued"} <=> at[In(c)] \in {"none", "queued"})
  PROVE  StepInv(e)'
  <1> SUFFICES ASSUME InStep(e)'
               PROVE  /\ Rising(incoming'[e])
                      /\ \A c \in Conn : Kid(c, Mirror(e))' =>
                           /\ at'[In(c)] \notin {"none", "queued"} => call'[c] = "done" /\ ~Sent(e, In(c))'
                           /\ at'[In(c)] \in {"none", "queued"} /\ call'[c] = "done" => Sent(e, In(c))'
    BY DEF StepInv
  <1>1. \A c \in Conn : Kid(c, Mirror(e))' <=> Kid(c, Mirror(e))
    BY DEF Kid, Opened, Parent
  <1>2. ASSUME NEW c \in Opened, Parent(c) = Mirror(e)
        PROVE  call[c] # "failed" /\ call'[c] # "failed" /\ c \in Conn
    <2>1. c \in Conn /\ c \in Opened' /\ Parent(c)' = Mirror(e)
      BY <1>2, ConnTypes DEF Opened, Parent
    <2>2. call'[c] # "failed"
      BY <2>1 DEF InStep, OutOfStep
    <2> QED BY <2>1, <2>2
  <1>3. InStep(e)
    <2>1. CanTake(e) /\ e \in Ends /\ Registered(e)
      BY DEF InStep, Ends, Opened, Registered, Parent
    <2>2. ~OutOfStep(Mirror(e))
      BY <1>2 DEF OutOfStep
    <2> QED BY <2>1, <2>2 DEF InStep
  <1>4. StepInv(e)
    BY DEF ListenerInv
  <1>5. \A c : Sent(e, In(c))' <=> Sent(e, In(c))
    BY DEF Sent
  <1> QED BY <1>1, <1>2, <1>3, <1>4, <1>5 DEF StepInv, Kid

-----------------------------------------------------------------------------
(* The wires of the applications.                                           *)

\* A step that moves some wires onward and leaves the network and the listeners alone.
Onward ==
  /\ UNCHANGED <<conns, up, inbox, lstate, wires, mid>>
  /\ \A d \in End :
       \/ at'[d] = at[d]
       \/ /\ at[d] # "none" /\ at'[d] \notin {"none", "queued"}
          /\ QueueGone(d) => QueueGone(d)'
          /\ CanTake(d)' /\ Registered(d) => CanTake(d)
  /\ \A c \in Conn :
       /\ call'[c] \in {"reply", "done"} => call'[c] = call[c]
       /\ call'[c] = "info" => call'[c] = call[c] /\ at'[Out(c)] = at[Out(c)]
       /\ call'[c] = "failed" => at'[Out(c)] \in {"none", "dropped"}
       /\ c \notin Opened => call'[c] = call[c]

LEMMA OnwardKeeps ==
  ASSUME TypeOK, ListenerInv, Onward
  PROVE  /\ \A c \in Conn : EventInv(c)' /\ ConnInv(c)'
         /\ \A n \in Node : MidInv(n)'
         /\ \A c \in Conn, s \in End : Kid(c, s)' => KidInv(c, s)'
         /\ \A e \in End : EndInv(e)'
  <1>1. /\ conns' = conns /\ up' = up /\ inbox' = inbox /\ lstate' = lstate
        /\ wires' = wires /\ mid' = mid
    BY DEF Onward
  <1>2. \A d \in End : at'[d] = "none" <=> at[d] = "none"
    BY DEF Onward
  <1>3. Opened' = Opened
    BY <1>1 DEF Opened
  <1>4. ASSUME NEW c \in Conn PROVE EventInv(c)' /\ ConnInv(c)'
    <2>1. EventInv(c) /\ ConnInv(c) /\ Out(c) \in End /\ In(c) \in End
      BY EndFacts DEF ListenerInv
    <2>2. EventInv(c)'
      BY <1>1, <1>2, <1>3, <2>1 DEF EventInv
    <2>3. ConnInv(c)'
      BY <1>1, <1>2, <1>3, <2>1 DEF ConnInv, Onward, TypeOK
    <2> QED BY <2>2, <2>3
  <1>5. ASSUME NEW n \in Node PROVE MidInv(n)'
    BY <1>1 DEF ListenerInv, MidInv
  <1>6. ASSUME NEW c \in Conn, NEW s \in End, Kid(c, s)' PROVE KidInv(c, s)'
    BY <1>1, <1>2, <1>6, KidKeep
  <1>7. ASSUME NEW e \in End PROVE EndInv(e)'
    <2>1. EndInv(e)
      BY DEF ListenerInv
    <2>2. /\ Registered(e)' <=> Registered(e)
          /\ e \in Ends' <=> e \in Ends
          /\ Owner(e)' = Owner(e)
      BY <1>1, <1>3 DEF Registered, Ends, Owner, Parent
    <2>3. /\ QueueGone(e) => QueueGone(e)'
          /\ at[e] \notin {"none", "queued"} => at'[e] \notin {"none", "queued"}
          /\ CanTake(e)' /\ Registered(e) => CanTake(e)
      BY DEF Onward, QueueGone, CanTake
    <2> QED BY <1>1, <2>1, <2>2, <2>3 DEF EndInv
  <1> QED BY <1>4, <1>5, <1>6, <1>7

\* A wire, or its read half, goes: so does its queue, and what waits in it.
Releases(e, new) ==
  /\ UNCHANGED <<conns, up, inbox, lstate, wires, mid>>
  /\ at[e] \in {"held", "read_half", "write_half"} /\ new \in {"write_half", "dropped"}
  /\ at[e] = "write_half" => new = "dropped"
  /\ \A d \in End :
       /\ at'[d] = IF d = e THEN new ELSE IF InQueue(e, d) THEN "dropped" ELSE at[d]
       /\ incoming'[d] = IF d = e THEN <<>> ELSE incoming[d]
       /\ \/ ids'[d] = ids[d]
          \/ d = e /\ ids[d] # <<>> /\ ids'[d] = Tail(ids[d])
  /\ \A c \in Conn :
       \/ call'[c] = call[c] /\ (call[c] \in {"reply", "info"} => Out(c) # e \/ c \notin Opened)
       \/ /\ call[c] \in {"reply", "info"} /\ call'[c] = "failed" /\ c \in Opened
          /\ Out(c) = e /\ new = "dropped"

LEMMA ReleasesInv ==
  ASSUME TypeOK, ListenerInv, NEW e \in End, NEW new, Releases(e, new)
  PROVE  ListenerInv'
  <1>1. conns' = conns /\ up' = up
    BY DEF Releases
  <1>2. \A d : InQueue(e, d) => at[d] = "queued" /\ d \in End
    BY QueuedFacts
  <1>3. Onward
    <2>1. ASSUME NEW d \in End
          PROVE  \/ at'[d] = at[d]
                 \/ /\ at[d] # "none" /\ at'[d] \notin {"none", "queued"}
                    /\ QueueGone(d) => QueueGone(d)'
                    /\ CanTake(d)' /\ Registered(d) => CanTake(d)
      BY <1>2 DEF Releases, QueueGone, CanTake
    <2>2. ASSUME NEW c \in Conn
          PROVE  /\ call'[c] \in {"reply", "done"} => call'[c] = call[c]
                 /\ call'[c] = "info" => call'[c] = call[c] /\ at'[Out(c)] = at[Out(c)]
                 /\ call'[c] = "failed" => at'[Out(c)] \in {"none", "dropped"}
                 /\ c \notin Opened => call'[c] = call[c]
      <3>1. /\ Out(c) \in End /\ ConnInv(c) /\ ~InQueue(e, Out(c))
        BY EndFacts, QueuedFacts DEF ListenerInv
      <3>2. at'[Out(c)] = IF Out(c) = e THEN new ELSE at[Out(c)]
        BY <3>1 DEF Releases
      <3>3. call[c] = "failed" => Out(c) # e
        BY <3>1 DEF ConnInv, Releases
      <3>4. call[c] = "info" => c \in Opened
        BY <3>1 DEF ConnInv
      <3> QED BY <3>1, <3>2, <3>3, <3>4 DEF ConnInv, Releases
    <2> QED BY <2>1, <2>2 DEF Releases, Onward
  <1>4. \A c \in Conn : /\ call[c] \in {"done", "failed"} => call'[c] = call[c]
                        /\ call'[c] = "done" => call[c] = "done"
                        /\ at'[In(c)] = "none" <=> at[In(c)] = "none"
    BY <1>3, EndFacts DEF Onward, Releases
  <1>5. ASSUME NEW f \in End PROVE OrderInv(f)'
    BY <1>1, <1>4, OrderKeep DEF Releases
  <1>6. ASSUME NEW f \in End PROVE QueueInv(f)'
    <2>1. CASE f = e
      <3>1. incoming'[f] = <<>>
        BY <2>1 DEF Releases
      <3> QED BY <3>1 DEF QueueInv, Distinct
    <2>2. CASE f # e
      <3>1. incoming'[f] = incoming[f]
        BY <2>2 DEF Releases
      <3>2. ASSUME NEW d, InQueue(f, d) PROVE at'[d] = at[d]
        <4>1. d \in End /\ at[d] = "queued" /\ ~InQueue(e, d)
          BY <2>2, <3>2, QueuedFacts
        <4> QED BY <4>1 DEF Releases
      <3>3. incoming[f] # <<>> /\ CanTake(f) => CanTake(f)'
        BY <1>2, <2>2 DEF Releases, CanTake
      <3> QED BY <1>1, <3>1, <3>2, <3>3, QueueKeep
    <2> QED BY <2>1, <2>2
  <1>7. ASSUME NEW d \in End PROVE PlaceInv(d)'
    <2> SUFFICES ASSUME at'[d] = "queued" PROVE \E f \in End : InQueue(f, d)'
      BY DEF PlaceInv
    <2>1. at[d] = "queued" /\ ~InQueue(e, d)
      BY DEF Releases
    <2>2. PICK f \in End : InQueue(f, d)
      BY <2>1 DEF ListenerInv, PlaceInv
    <2>3. incoming'[f] = incoming[f]
      BY <2>1, <2>2 DEF Releases
    <2> QED BY <2>2, <2>3 DEF InQueue
  <1>8. ASSUME NEW f \in End PROVE StepInv(f)'
    <2>1. CASE f = e
      BY <2>1 DEF Releases, StepInv, InStep, CanTake
    <2>2. CASE f # e
      <3>1. ids'[f] = ids[f] /\ incoming'[f] = incoming[f]
        BY <2>2 DEF Releases
      <3>2. CanTake(f)' => CanTake(f)
        BY <2>2 DEF Releases, CanTake
      <3>3. \A c \in Conn : /\ call[c] = "failed" => call'[c] = "failed"
                            /\ call'[c] = "done" <=> call[c] = "done"
        BY DEF Releases
      <3>4. ASSUME NEW c \in Conn, Kid(c, Mirror(f))
            PROVE  at'[In(c)] \in {"none", "queued"} <=> at[In(c)] \in {"none", "queued"}
        <4>1. In(c) \in End
          BY EndFacts
        <4>2. ~InQueue(e, In(c))
          <5> SUFFICES ASSUME InQueue(e, In(c)) PROVE FALSE
            OBVIOUS
          <5>1. PICK k \in Conn : In(c) = In(k) /\ Kid(k, Mirror(e))
            BY QueuedFacts
          <5>2. Mirror(e) = Mirror(f)
            BY <3>4, <5>1, EndFacts DEF Kid
          <5> QED BY <2>2, <5>2, EndFacts
        <4> QED BY <4>1, <4>2 DEF Releases
      <3> QED BY <1>1, <3>1, <3>2, <3>3, <3>4, StepKeep
    <2> QED BY <2>1, <2>2
  <1> QED BY <1>3, <1>5, <1>6, <1>7, <1>8, OnwardKeeps DEF ListenerInv

LEMMA DroppedFacts ==
  ASSUME TypeOK, NEW e \in End
  PROVE  \A d \in End :
           /\ Dropped({e})[d] = IF d = e \/ InQueue(e, d) THEN "dropped" ELSE at[d]
           /\ Emptied({e})[d] = IF d = e THEN <<>> ELSE incoming[d]
  BY DEF Dropped, Emptied, QueuedIn, InQueue

LEMMA FailsInv ==
  ASSUME TypeOK, ListenerInv, NEW c \in Opened, InfoFails(c) \/ Cancel(c)
  PROVE  ListenerInv'
  <1>1. /\ Fails(c) /\ UNCHANGED <<conns, up, ids, inbox, lstate, wires, mid>>
        /\ call[c] \in {"reply", "info"}
    BY DEF InfoFails, Cancel, Calling
  <1>2. c \in Conn /\ Out(c) \in End /\ ConnInv(c)
    BY ConnTypes, EndFacts DEF ListenerInv
  <1>3. \A k \in Conn : call'[k] = IF k = c THEN "failed" ELSE call[k]
    BY <1>1, <1>2 DEF Fails, TypeOK
  <1>4. CASE at[Out(c)] = "held"
    <2>1. at' = Dropped({Out(c)}) /\ incoming' = Emptied({Out(c)})
      BY <1>1, <1>4 DEF Fails
    <2>2. \A k \in Conn : k # c => Out(k) # Out(c)
      BY EndFacts
    <2>3. \A d \in End :
            /\ at'[d] = IF d = Out(c) \/ InQueue(Out(c), d) THEN "dropped" ELSE at[d]
            /\ incoming'[d] = IF d = Out(c) THEN <<>> ELSE incoming[d]
      BY <1>2, <2>1, DroppedFacts
    <2>4. Releases(Out(c), "dropped")
      BY <1>1, <1>3, <1>4, <2>2, <2>3 DEF Releases
    <2> QED BY <1>2, <2>4, ReleasesInv
  <1>5. CASE at[Out(c)] # "held"
    <2>1. at' = at /\ incoming' = incoming /\ at[Out(c)] = "none"
      BY <1>1, <1>2, <1>5 DEF Fails, ConnInv
    <2>2. Onward
      <3>1. ASSUME NEW k \in Conn
            PROVE  /\ call'[k] \in {"reply", "done"} => call'[k] = call[k]
                   /\ call'[k] = "info" => call'[k] = call[k] /\ at'[Out(k)] = at[Out(k)]
                   /\ call'[k] = "failed" => at'[Out(k)] \in {"none", "dropped"}
                   /\ k \notin Opened => call'[k] = call[k]
        <4>1. ConnInv(k)
          BY DEF ListenerInv
        <4> QED BY <1>3, <2>1, <4>1 DEF ConnInv
      <3> QED BY <1>1, <2>1, <3>1 DEF Onward
    <2>3. ASSUME NEW e \in End
          PROVE  QueueInv(e)' /\ PlaceInv(e)' /\ OrderInv(e)' /\ StepInv(e)'
      <3>1. QueueInv(e)'
        BY <1>1, <2>1, QueueKeep DEF CanTake
      <3>2. PlaceInv(e)'
        BY <2>1 DEF ListenerInv, PlaceInv, InQueue
      <3>3. OrderInv(e)'
        BY <1>1, <1>3, <2>1, OrderKeep
      <3>4. StepInv(e)'
        BY <1>1, <1>3, <2>1, StepKeep DEF CanTake
      <3> QED BY <3>1, <3>2, <3>3, <3>4
    <2> QED BY <2>2, <2>3, OnwardKeeps DEF ListenerInv
  <1> QED BY <1>4, <1>5

\* A wire of which something goes is not the new wire of a call.
LEMMA NotOpening ==
  ASSUME TypeOK, NEW e, ~Opening(e)
  PROVE  \A c \in Conn : call[c] \in {"reply", "info"} => Out(c) # e \/ c \notin Opened
  BY DEF Opening, Calling

LEMMA DropInv ==
  ASSUME TypeOK, ListenerInv, NEW e \in Ends, DropStream(e) \/ DropReadHalf(e)
  PROVE  ListenerInv'
  <1>1. e \in End /\ ~Opening(e)
    BY EndTypes DEF DropStream, DropReadHalf
  <1>2. /\ UNCHANGED <<conns, up, call, ids, inbox, lstate, wires, mid>>
        /\ incoming' = Emptied({e})
    BY DEF DropStream, DropReadHalf
  <1>3. \A d \in End : incoming'[d] = IF d = e THEN <<>> ELSE incoming[d]
    BY <1>1, <1>2, DroppedFacts
  <1>4. CASE DropStream(e)
    <2>1. at' = Dropped({e}) /\ at[e] \in {"held", "read_half", "write_half"}
      BY <1>4 DEF DropStream, CanTake, CanOpen
    <2>2. \A d \in End : at'[d] = IF d = e \/ InQueue(e, d) THEN "dropped" ELSE at[d]
      BY <1>1, <2>1, DroppedFacts
    <2>3. Releases(e, "dropped")
      BY <1>1, <1>2, <1>3, <2>1, <2>2, NotOpening DEF Releases
    <2> QED BY <1>1, <2>3, ReleasesInv
  <1>5. CASE DropReadHalf(e)
    <2>1. at' = [Dropped({e}) EXCEPT ![e] = "write_half"] /\ at[e] = "held"
      BY <1>5 DEF DropReadHalf
    <2>2. \A d \in End : at'[d] = IF d = e THEN "write_half" ELSE Dropped({e})[d]
      BY <2>1 DEF Dropped
    <2>3. \A d \in End :
            at'[d] = IF d = e THEN "write_half" ELSE IF InQueue(e, d) THEN "dropped" ELSE at[d]
      BY <1>1, <2>2, DroppedFacts
    <2>4. Releases(e, "write_half")
      BY <1>1, <1>2, <1>3, <2>1, <2>3, NotOpening DEF Releases
    <2> QED BY <1>1, <2>4, ReleasesInv
  <1> QED BY <1>4, <1>5

LEMMA DropWriteHalfInv ==
  ASSUME TypeOK, ListenerInv, NEW e \in Ends, DropWriteHalf(e)
  PROVE  ListenerInv'
  <1>1. e \in End /\ ~Opening(e) /\ at[e] = "held" /\ at' = [at EXCEPT ![e] = "read_half"]
    BY EndTypes DEF DropWriteHalf
  <1>2. UNCHANGED <<conns, up, call, incoming, ids, inbox, lstate, wires, mid>>
    BY DEF DropWriteHalf
  <1>3. \A d \in End : at'[d] = IF d = e THEN "read_half" ELSE at[d]
    BY <1>1 DEF TypeOK
  <1>4. Onward
    <2>1. ASSUME NEW c \in Conn
          PROVE  /\ call[c] = "info" => at'[Out(c)] = at[Out(c)]
                 /\ call[c] = "failed" => at'[Out(c)] \in {"none", "dropped"}
      <3>1. ConnInv(c) /\ Out(c) \in End
        BY EndFacts DEF ListenerInv
      <3>2. call[c] = "info" => Out(c) # e
        BY <1>1, <3>1 DEF ConnInv, Opening, Calling
      <3> QED BY <1>1, <1>3, <3>1, <3>2 DEF ConnInv
    <2> QED BY <1>1, <1>2, <1>3, <2>1 DEF Onward, QueueGone, CanTake
  <1>5. ASSUME NEW f \in End
        PROVE  QueueInv(f)' /\ PlaceInv(f)' /\ OrderInv(f)' /\ StepInv(f)'
    <2>1. \A d : InQueue(f, d) => at'[d] = at[d]
      BY <1>1, <1>3, QueuedFacts
    <2>2. CanTake(f)' <=> CanTake(f)
      BY <1>1, <1>3 DEF CanTake
    <2>3. QueueInv(f)'
      BY <1>2, <2>1, <2>2, QueueKeep
    <2>4. PlaceInv(f)'
      BY <1>2, <1>3 DEF ListenerInv, PlaceInv, InQueue
    <2>5. \A c \in Conn : /\ at'[In(c)] = "none" <=> at[In(c)] = "none"
                          /\ at'[In(c)] = "queued" <=> at[In(c)] = "queued"
      BY <1>1, <1>3, EndFacts
    <2>6. OrderInv(f)'
      BY <1>2, <2>5, OrderKeep
    <2>7. StepInv(f)'
      BY <1>2, <2>2, <2>5, StepKeep
    <2> QED BY <2>3, <2>4, <2>6, <2>7
  <1> QED BY <1>4, <1>5, OnwardKeeps DEF ListenerInv

\* The wire at the head of the queue is the one whose id is to be read next.
LEMMA HeadsAgree ==
  ASSUME TypeOK, ListenerInv, NEW e \in End, InStep(e), ids[e] # <<>>, incoming[e] # <<>>
  PROVE  Head(ids[e]) = Head(incoming[e])
  <1>1. ids[e] \in Seq(End) /\ incoming[e] \in Seq(End)
    BY DEF TypeOK
  <1>2. QueueInv(e) /\ OrderInv(e) /\ StepInv(e)
    BY DEF ListenerInv
  <1>3. /\ 1 \in DOMAIN ids[e] /\ ids[e][1] = Head(ids[e])
        /\ 1 \in DOMAIN incoming[e] /\ incoming[e][1] = Head(incoming[e])
    BY <1>1, TailEntries
  <1>4. PICK c \in Conn : Head(ids[e]) = In(c) /\ Kid(c, Mirror(e)) /\ call[c] = "done"
    BY <1>2, <1>3 DEF OrderInv
  <1>5. PICK d \in Conn : Head(incoming[e]) = In(d) /\ Kid(d, Mirror(e)) /\ at[In(d)] = "queued"
    BY <1>2, <1>3 DEF QueueInv
  <1>6. c \in Nat /\ d \in Nat
    BY MaxConnsAssumption DEF Conn
  <1>7. ASSUME c < d PROVE FALSE
    <2>1. at[In(c)] # "none"
      BY <1>2, <1>4, <1>5, <1>7 DEF OrderInv
    <2>2. Sent(e, In(c))
      BY <1>3, <1>4 DEF Sent
    <2>3. at[In(c)] = "queued"
      BY <1>2, <1>4, <2>1, <2>2 DEF StepInv
    <2>4. PICK f \in End : InQueue(f, In(c))
      BY <2>3, EndFacts DEF ListenerInv, PlaceInv
    <2>5. PICK k \in Conn : In(c) = In(k) /\ Kid(k, Mirror(f))
      BY <2>4, QueuedFacts
    <2>6. f = e
      BY <1>4, <2>5, EndFacts DEF Kid
    <2>7. PICK i \in DOMAIN incoming[e] : incoming[e][i] = In(c)
      BY <2>4, <2>6 DEF InQueue
    <2>8. Rising(incoming[e]) /\ In(c)[1] = c /\ In(d)[1] = d /\ In(c) # In(d)
      BY <1>2, <1>6, <1>7, EndFacts DEF StepInv
    <2>9. i # 1 /\ DOMAIN incoming[e] = 1..Len(incoming[e]) /\ Len(incoming[e]) \in Nat
      BY <1>1, <1>3, <1>5, <2>7, <2>8
    <2>10. d < c
      BY <1>3, <1>5, <2>7, <2>8, <2>9 DEF Rising
    <2> QED BY <1>6, <1>7, <2>10
  <1>8. ASSUME d < c PROVE FALSE
    <2>1. call[d] \in {"done", "failed"}
      BY <1>2, <1>4, <1>5, <1>8 DEF OrderInv
    <2>2. call[d] # "failed"
      BY <1>5 DEF InStep, OutOfStep, Kid
    <2>3. Sent(e, In(d))
      BY <1>2, <1>5, <2>1, <2>2 DEF StepInv
    <2>4. PICK i \in DOMAIN ids[e] : ids[e][i] = In(d)
      BY <2>3 DEF Sent
    <2>5. Rising(ids[e]) /\ In(c)[1] = c /\ In(d)[1] = d /\ In(c) # In(d)
      BY <1>2, <1>6, <1>8, EndFacts DEF OrderInv
    <2>6. i # 1 /\ DOMAIN ids[e] = 1..Len(ids[e]) /\ Len(ids[e]) \in Nat
      BY <1>1, <1>3, <1>4, <2>4, <2>5
    <2>7. c < d
      BY <1>3, <1>4, <2>4, <2>5, <2>6 DEF Rising
    <2> QED BY <1>6, <1>8, <2>7
  <1> QED BY <1>4, <1>5, <1>6, <1>7, <1>8

LEMMA TakeInv ==
  ASSUME TypeOK, ListenerInv, NEW e \in Ends, TakeStream(e)
  PROVE  ListenerInv'
  <1>1. /\ e \in End /\ ~Opening(e) /\ at[e] \in {"held", "read_half"}
        /\ ids[e] # <<>> /\ ids[e] \in Seq(End) /\ incoming[e] \in Seq(End)
    BY EndTypes DEF TakeStream, CanTake, TypeOK
  <1>2. /\ UNCHANGED <<conns, up, call, inbox, lstate, wires, mid>>
        /\ ids' = [ids EXCEPT ![e] = Tail(@)]
    BY DEF TakeStream
  <1>3. \A f \in End : ids'[f] = IF f = e THEN Tail(ids[e]) ELSE ids[f]
    BY <1>1, <1>2 DEF TypeOK
  <1>4. CASE incoming[e] = <<>>
    <2>1. /\ at' = [at EXCEPT ![e] = IF Borrowed(e) THEN "write_half" ELSE "dropped"]
          /\ incoming' = incoming
      BY <1>4 DEF TakeStream
    <2>2. \A d : ~InQueue(e, d)
      BY <1>4 DEF InQueue
    <2>3. PICK new \in {"write_half", "dropped"} : at' = [at EXCEPT ![e] = new]
      BY <2>1
    <2>4. \A d \in End : at'[d] = IF d = e THEN new ELSE at[d]
      BY <1>1, <2>3 DEF TypeOK
    <2>5. \A d \in End :
            /\ at'[d] = IF d = e THEN new ELSE IF InQueue(e, d) THEN "dropped" ELSE at[d]
            /\ incoming'[d] = IF d = e THEN <<>> ELSE incoming[d]
            /\ ids'[d] = ids[d] \/ (d = e /\ ids[d] # <<>> /\ ids'[d] = Tail(ids[d]))
      BY <1>1, <1>3, <1>4, <2>1, <2>2, <2>4
    <2>6. Releases(e, new)
      BY <1>1, <1>2, <2>5, NotOpening DEF Releases
    <2> QED BY <1>1, <2>6, ReleasesInv
  <1>5. CASE incoming[e] # <<>>
    <2> DEFINE d == Head(incoming[e])
    <2>1. incoming' = [incoming EXCEPT ![e] = Tail(@)] /\ at' = [at EXCEPT ![d] = "held"]
      BY <1>5 DEF TakeStream
    <2>2. 1 \in DOMAIN incoming[e] /\ incoming[e][1] = d /\ d \in End
      BY <1>1, <1>5, TailEntries
    <2> HIDE DEF d
    <2>3. InQueue(e, d) /\ at[d] = "queued" /\ d # e /\ \A f \in End : InQueue(f, d) => f = e
      <3>1. InQueue(e, d)
        BY <2>2 DEF InQueue
      <3> QED BY <1>1, <3>1, QueuedFacts
    <2>4. PICK c \in Conn : d = In(c) /\ Kid(c, Mirror(e))
      BY <1>1, <2>3, QueuedFacts
    <2>5. \A f \in End : /\ at'[f] = IF f = d THEN "held" ELSE at[f]
                         /\ incoming'[f] = IF f = e THEN Tail(incoming[e]) ELSE incoming[f]
      BY <1>1, <2>1, <2>2 DEF TypeOK
    <2>6. ~Registered(d)
      BY <1>1, <2>4, EndFacts DEF Registered, Kid
    <2>7. Onward
      <3>1. ASSUME NEW f \in End
            PROVE  \/ at'[f] = at[f]
                   \/ /\ at[f] # "none" /\ at'[f] \notin {"none", "queued"}
                      /\ QueueGone(f) => QueueGone(f)'
                      /\ CanTake(f)' /\ Registered(f) => CanTake(f)
        BY <2>3, <2>5, <2>6 DEF QueueGone, CanTake
      <3>2. ASSUME NEW k \in Conn PROVE at'[Out(k)] = at[Out(k)]
        BY <2>4, <2>5, EndFacts
      <3>3. \A k \in Conn : call[k] = "failed" => at[Out(k)] \in {"none", "dropped"}
        BY DEF ListenerInv, ConnInv
      <3> QED BY <1>2, <3>1, <3>2, <3>3 DEF Onward
    <2>8. /\ Distinct(Tail(incoming[e]))
          /\ \A i \in DOMAIN Tail(incoming[e]) :
               /\ Tail(incoming[e])[i] # d
               /\ i + 1 \in DOMAIN incoming[e] /\ Tail(incoming[e])[i] = incoming[e][i + 1]
      <3>1. Distinct(incoming[e])
        BY <1>1 DEF ListenerInv, QueueInv
      <3> QED BY <1>1, <1>5, <3>1, TailEntries DEF d
    <2>9. ASSUME NEW f \in End PROVE QueueInv(f)'
      <3>1. CASE f # e
        <4>1. \A x : InQueue(f, x) => at'[x] = at[x]
          BY <2>3, <2>5, <3>1, QueuedFacts
        <4>2. CanTake(f) => CanTake(f)'
          BY <2>5 DEF CanTake
        <4> QED BY <1>2, <2>5, <3>1, <4>1, <4>2, QueueKeep
      <3>2. CASE f = e
        <4>1. e \in Ends' /\ CanTake(e)' /\ Registered(e)'
          BY <1>1, <1>2, <1>5, <2>3, <2>5
             DEF ListenerInv, QueueInv, Ends, Opened, CanTake, Registered, Parent
        <4>2. ASSUME NEW i \in DOMAIN Tail(incoming[e])
              PROVE  \E k \in Conn : /\ Tail(incoming[e])[i] = In(k) /\ Kid(k, Mirror(e))'
                                     /\ at'[In(k)] = "queued"
          <5>1. PICK k \in Conn : incoming[e][i + 1] = In(k) /\ Kid(k, Mirror(e)) /\ at[In(k)] = "queued"
            BY <1>1, <2>8 DEF ListenerInv, QueueInv
          <5>2. Kid(k, Mirror(e))'
            BY <1>2, <5>1 DEF Kid, Opened, Parent
          <5>3. at'[In(k)] = at[In(k)]
            BY <2>5, <2>8, <5>1, EndFacts
          <5> QED BY <2>8, <5>1, <5>2, <5>3
        <4> QED BY <2>5, <2>8, <3>2, <4>1, <4>2 DEF QueueInv
      <3> QED BY <3>1, <3>2
    <2>10. ASSUME NEW f \in End PROVE PlaceInv(f)'
      <3> SUFFICES ASSUME at'[f] = "queued" PROVE \E g \in End : InQueue(g, f)'
        BY DEF PlaceInv
      <3>1. f # d /\ at[f] = "queued"
        BY <2>5
      <3>2. PICK g \in End : InQueue(g, f)
        BY <3>1 DEF ListenerInv, PlaceInv
      <3>3. CASE g # e
        BY <2>5, <3>2, <3>3 DEF InQueue
      <3>4. CASE g = e
        <4>1. PICK i \in DOMAIN incoming[e] : incoming[e][i] = f
          BY <3>2, <3>4 DEF InQueue
        <4>2. \E j \in DOMAIN Tail(incoming[e]) : Tail(incoming[e])[j] = f
          BY <1>1, <1>5, <3>1, <4>1, TailEntries DEF d
        <4> QED BY <1>1, <2>5, <4>2 DEF InQueue
      <3> QED BY <3>3, <3>4
    <2>11. ASSUME NEW f \in End PROVE OrderInv(f)'
      <3>1. \A k \in Conn : at'[In(k)] = "none" <=> at[In(k)] = "none"
        BY <2>3, <2>5, EndFacts
      <3>2. ids'[f] = ids[f] \/ (ids[f] # <<>> /\ ids'[f] = Tail(ids[f]))
        BY <1>1, <1>3
      <3> QED BY <1>2, <3>1, <3>2, OrderKeep
    <2>12. ASSUME NEW f \in End PROVE StepInv(f)'
      <3>1. CASE f # e
        <4>1. CASE f = d
          BY <1>2, <2>6, <4>1 DEF StepInv, InStep, Registered, Parent
        <4>2. CASE f # d
          <5>1. CanTake(f)' => CanTake(f)
            BY <2>5, <4>2 DEF CanTake
          <5>2. ASSUME NEW k \in Conn, Kid(k, Mirror(f)) PROVE at'[In(k)] = at[In(k)]
            <6>1. In(k) # d
              BY <1>1, <2>4, <3>1, <5>2, EndFacts DEF Kid
            <6> QED BY <2>5, <6>1, EndFacts
          <5> QED BY <1>2, <1>3, <2>5, <3>1, <5>1, <5>2, StepKeep
        <4> QED BY <4>1, <4>2
      <3>2. CASE f = e
        <4> SUFFICES ASSUME InStep(e)'
                     PROVE  /\ Rising(incoming[e])'
                            /\ \A k \in Conn : Kid(k, Mirror(e))' =>
                                 /\ at'[In(k)] \notin {"none", "queued"} =>
                                      call'[k] = "done" /\ ~Sent(e, In(k))'
                                 /\ at'[In(k)] \in {"none", "queued"} /\ call'[k] = "done" =>
                                      Sent(e, In(k))'
          BY <3>2 DEF StepInv
        <4>1. InStep(e)
          BY <1>1, <1>2 DEF InStep, OutOfStep, CanTake, Registered, Parent, Ends, Opened
        <4>2. StepInv(e) /\ OrderInv(e)
          BY <1>1 DEF ListenerInv
        <4>3. Head(ids[e]) = d
          BY <1>1, <1>5, <4>1, HeadsAgree DEF d
        <4>4. /\ \A i \in DOMAIN Tail(ids[e]) : /\ i + 1 \in DOMAIN ids[e]
                                                /\ Tail(ids[e])[i] = ids[e][i + 1]
              /\ \A i \in DOMAIN ids[e] :
                   ids[e][i] = d \/ \E j \in DOMAIN Tail(ids[e]) : Tail(ids[e])[j] = ids[e][i]
              /\ \A i \in DOMAIN Tail(ids[e]) : d[1] < Tail(ids[e])[i][1]
              /\ 1 \in DOMAIN ids[e] /\ ids[e][1] = d
          BY <1>1, <4>2, <4>3, TailEntries DEF OrderInv
        <4>5. Rising(incoming[e])'
          BY <1>1, <1>5, <2>5, <4>1, <4>2, TailEntries DEF StepInv
        <4>6. /\ \A x : Sent(e, x)' => Sent(e, x)
              /\ \A x : Sent(e, x) /\ x # d => Sent(e, x)'
          <5>1. ids'[e] = Tail(ids[e])
            BY <1>1, <1>3
          <5>2. ASSUME NEW x, Sent(e, x)' PROVE Sent(e, x)
            <6>1. PICK i \in DOMAIN Tail(ids[e]) : Tail(ids[e])[i] = x
              BY <5>1, <5>2 DEF Sent
            <6> QED BY <4>4, <6>1 DEF Sent
          <5>3. ASSUME NEW x, Sent(e, x), x # d PROVE Sent(e, x)'
            <6>1. PICK i \in DOMAIN ids[e] : ids[e][i] = x
              BY <5>3 DEF Sent
            <6>2. \E j \in DOMAIN Tail(ids[e]) : Tail(ids[e])[j] = x
              BY <4>4, <5>3, <6>1
            <6> QED BY <5>1, <6>2 DEF Sent
          <5> QED BY <5>2, <5>3
        <4>7. ~Sent(e, In(c))'
          <5>1. d[1] = c /\ c \in Nat
            BY <2>4, EndFacts, MaxConnsAssumption DEF Conn
          <5>2. ~(d[1] < d[1])
            BY <5>1
          <5>3. ids'[e] = Tail(ids[e])
            BY <1>1, <1>3
          <5>4. \A i \in DOMAIN Tail(ids[e]) : Tail(ids[e])[i] # In(c)
            BY <2>4, <4>4, <5>2
          <5> QED BY <5>3, <5>4 DEF Sent
        <4>8. call[c] = "done"
          <5>1. PICK k \in Conn : ids[e][1] = In(k) /\ call[k] = "done"
            BY <4>2, <4>4 DEF OrderInv
          <5>2. In(k) = In(c)
            BY <2>4, <4>4, <5>1
          <5>3. k = c
            BY <5>2, EndFacts
          <5> QED BY <5>1, <5>3
        <4>9. ASSUME NEW k \in Conn, Kid(k, Mirror(e))'
              PROVE  /\ at'[In(k)] \notin {"none", "queued"} =>
                          call'[k] = "done" /\ ~Sent(e, In(k))'
                     /\ at'[In(k)] \in {"none", "queued"} /\ call'[k] = "done" =>
                          Sent(e, In(k))'
          <5>1. Kid(k, Mirror(e)) /\ call'[k] = call[k]
            BY <1>2, <4>9 DEF Kid, Opened, Parent
          <5>2. CASE k = c
            <6>1. In(k) = d /\ at'[d] = "held"
              BY <2>2, <2>4, <2>5, <5>2
            <6> QED BY <4>7, <4>8, <5>1, <5>2, <6>1
          <5>3. CASE k # c
            <6>1. In(k) # d /\ at'[In(k)] = at[In(k)]
              BY <2>4, <2>5, <5>3, EndFacts
            <6> QED BY <4>1, <4>2, <4>6, <5>1, <6>1 DEF StepInv
          <5> QED BY <5>2, <5>3
        <4> QED BY <4>5, <4>9
      <3> QED BY <3>1, <3>2
    <2> QED BY <2>7, <2>9, <2>10, <2>11, <2>12, OnwardKeeps DEF ListenerInv
  <1> QED BY <1>4, <1>5

-----------------------------------------------------------------------------
(* The calls.                                                               *)

LEMMA InfoReadInv ==
  ASSUME TypeOK, ListenerInv, NEW c \in Opened, InfoRead(c)
  PROVE  ListenerInv'
  <1>1. /\ UNCHANGED <<conns, up, at, incoming, inbox, lstate, wires, mid>>
        /\ call[c] = "info" /\ up[c] = "welcome" /\ call' = [call EXCEPT ![c] = "done"]
    BY DEF InfoRead
  <1>2. c \in Conn /\ Parent(c) \in End \cup {NoEnd} /\ In(c) \in End
    BY ConnTypes, EndFacts
  <1>3. \A k \in Conn : call'[k] = IF k = c THEN "done" ELSE call[k]
    BY <1>1, <1>2 DEF TypeOK
  <1>4. ASSUME NEW f \in End
        PROVE  /\ Kid(c, Mirror(f)) => ids'[f] = Append(ids[f], In(c))
               /\ ~Kid(c, Mirror(f)) => ids'[f] = ids[f]
               /\ ids[f] \in Seq(End)
    <2>1. ids[f] \in Seq(End)
      BY DEF TypeOK
    <2>2. CASE Parent(c) = NoEnd
      <3>1. ids' = ids /\ Mirror(f) # NoEnd
        BY <2>2, EndFacts DEF InfoRead
      <3> QED BY <2>1, <2>2, <3>1 DEF Kid
    <2>3. CASE Parent(c) # NoEnd
      <3>1. ids' = [ids EXCEPT ![Mirror(Parent(c))] = Append(@, In(c))]
        BY <2>3 DEF InfoRead
      <3>2. f = Mirror(Parent(c)) <=> Mirror(f) = Parent(c)
        BY <1>2, <2>3, EndFacts
      <3> QED BY <2>1, <3>1, <3>2 DEF Kid, TypeOK
    <2> QED BY <2>2, <2>3
  <1>5. Opened' = Opened /\ \A k, s : Kid(k, s)' <=> Kid(k, s)
    BY <1>1 DEF Opened, Kid, Parent
  <1>6. ASSUME NEW k \in Conn PROVE EventInv(k)' /\ ConnInv(k)'
    <2>1. EventInv(k) /\ ConnInv(k)
      BY DEF ListenerInv
    <2>2. EventInv(k)'
      BY <1>1, <1>5, <2>1 DEF EventInv
    <2>3. CASE k = c
      BY <1>1, <1>3, <1>5, <2>1, <2>2, <2>3 DEF ConnInv
    <2>4. CASE k # c
      BY <1>1, <1>3, <1>5, <2>1, <2>2, <2>4 DEF ConnInv
    <2> QED BY <2>2, <2>3, <2>4
  <1>7. ASSUME NEW n \in Node PROVE MidInv(n)'
    BY <1>1 DEF ListenerInv, MidInv
  <1>8. ASSUME NEW k \in Conn, NEW s \in End, Kid(k, s)' PROVE KidInv(k, s)'
    BY <1>1, <1>8, KidKeep
  <1>9. ASSUME NEW f \in End PROVE EndInv(f)' /\ QueueInv(f)' /\ PlaceInv(f)'
    <2>1. EndInv(f)'
      BY <1>1, <1>5 DEF ListenerInv, EndInv, QueueGone, CanTake, Ends, Registered, Owner, Parent
    <2>2. QueueInv(f)'
      BY <1>1, QueueKeep DEF CanTake
    <2>3. PlaceInv(f)'
      BY <1>1 DEF ListenerInv, PlaceInv, InQueue
    <2> QED BY <2>1, <2>2, <2>3
  <1>10. ASSUME NEW f \in End, NEW k \in Conn, NEW l \in Conn,
                Kid(k, Mirror(f)), Kid(l, Mirror(f)), k < l
         PROVE  k # c
    BY <1>1, <1>10 DEF ListenerInv, OrderInv
  <1>11. ASSUME NEW f \in End PROVE OrderInv(f)'
    <2>1. OrderInv(f) /\ ids[f] \in Seq(End)
      BY <1>4 DEF ListenerInv
    <2>2. ASSUME NEW k \in Conn, NEW l \in Conn,
                 Kid(k, Mirror(f))', Kid(l, Mirror(f))', k < l
          PROVE  /\ call'[k] \in {"done", "failed"}
                 /\ call'[k] = "done" /\ at'[In(l)] # "none" => at'[In(k)] # "none"
      <3>1. Kid(k, Mirror(f)) /\ Kid(l, Mirror(f))
        BY <1>5, <2>2
      <3>2. call'[k] = call[k]
        BY <1>3, <1>10, <2>2, <3>1
      <3> QED BY <1>1, <2>1, <2>2, <3>1, <3>2 DEF OrderInv
    <2>3. ASSUME NEW d \in {ids[f][i] : i \in DOMAIN ids[f]}
          PROVE  \E k \in Conn : d = In(k) /\ Kid(k, Mirror(f))' /\ call'[k] = "done" /\ call[k] = "done"
      <3>1. PICK k \in Conn : d = In(k) /\ Kid(k, Mirror(f)) /\ call[k] = "done"
        BY <2>1, <2>3 DEF OrderInv
      <3> QED BY <1>3, <1>5, <3>1
    <2>4. CASE ~Kid(c, Mirror(f))
      <3>1. ids'[f] = ids[f]
        BY <1>4, <2>4
      <3>2. \A i \in DOMAIN ids[f] :
              \E k \in Conn : ids[f][i] = In(k) /\ Kid(k, Mirror(f))' /\ call'[k] = "done"
        BY <2>3
      <3> QED BY <2>1, <2>2, <3>1, <3>2 DEF OrderInv
    <2>5. CASE Kid(c, Mirror(f))
      <3>1. ids'[f] = Append(ids[f], In(c))
        BY <1>4, <2>5
      <3>2. ASSUME NEW i \in DOMAIN ids[f] PROVE ids[f][i][1] < In(c)[1]
        <4>1. PICK k \in Conn : ids[f][i] = In(k) /\ Kid(k, Mirror(f)) /\ call[k] = "done"
          BY <2>1 DEF OrderInv
        <4>2. ~(c < k) /\ k # c /\ c \in Nat /\ k \in Nat
          BY <1>1, <1>2, <1>10, <2>5, <4>1, MaxConnsAssumption DEF Conn
        <4> QED BY <4>1, <4>2, EndFacts
      <3>3. Rising(Append(ids[f], In(c)))
        BY <1>2, <2>1, <3>2, AppendEntries DEF OrderInv
      <3>4. ASSUME NEW i \in DOMAIN Append(ids[f], In(c))
            PROVE  \E k \in Conn : /\ Append(ids[f], In(c))[i] = In(k) /\ Kid(k, Mirror(f))'
                                   /\ call'[k] = "done"
        <4>1. CASE Append(ids[f], In(c))[i] = In(c)
          BY <1>2, <1>3, <1>5, <2>5, <4>1
        <4>2. CASE i \in DOMAIN ids[f] /\ Append(ids[f], In(c))[i] = ids[f][i]
          BY <2>3, <4>2
        <4> QED BY <1>2, <2>1, <4>1, <4>2, AppendEntries
      <3> QED BY <2>2, <3>1, <3>3, <3>4 DEF OrderInv
    <2> QED BY <2>4, <2>5
  <1>12. ASSUME NEW f \in End PROVE StepInv(f)'
    <2> SUFFICES ASSUME InStep(f)'
                 PROVE  /\ Rising(incoming'[f])
                        /\ \A k \in Conn : Kid(k, Mirror(f))' =>
                             /\ at'[In(k)] \notin {"none", "queued"} => call'[k] = "done" /\ ~Sent(f, In(k))'
                             /\ at'[In(k)] \in {"none", "queued"} /\ call'[k] = "done" => Sent(f, In(k))'
      BY DEF StepInv
    <2>1. \A k \in Opened : call[k] = "failed" => call'[k] = "failed"
      BY <1>1, <1>3, ConnTypes
    <2>2. InStep(f)
      BY <1>1, <1>5, <2>1 DEF InStep, OutOfStep, CanTake, Registered, Parent, Ends
    <2>3. StepInv(f) /\ ids[f] \in Seq(End)
      BY <1>4 DEF ListenerInv
    <2>4. ASSUME NEW k \in Conn, Kid(k, Mirror(f))'
          PROVE  /\ at'[In(k)] \notin {"none", "queued"} => call'[k] = "done" /\ ~Sent(f, In(k))'
                 /\ at'[In(k)] \in {"none", "queued"} /\ call'[k] = "done" => Sent(f, In(k))'
      <3>1. Kid(k, Mirror(f)) /\ at' = at
        BY <1>1, <1>5, <2>4
      <3>2. CASE k = c
        <4>1. at[In(c)] \in {"none", "queued"}
          BY <1>1, <2>2, <2>3, <3>1, <3>2 DEF StepInv
        <4>2. ids'[f] = Append(ids[f], In(c))
          BY <1>4, <3>1, <3>2
        <4>3. Sent(f, In(c))'
          BY <1>2, <2>3, <4>2, AppendEntries DEF Sent
        <4> QED BY <3>1, <3>2, <4>1, <4>3
      <3>3. CASE k # c
        <4>1. Sent(f, In(k))' <=> Sent(f, In(k))
          <5>1. CASE ids'[f] = ids[f]
            BY <5>1 DEF Sent
          <5>2. CASE ids'[f] = Append(ids[f], In(c))
            <6>1. In(k) # In(c)
              BY <3>3, EndFacts
            <6>2. /\ \A i \in DOMAIN Append(ids[f], In(c)) :
                       \/ i \in DOMAIN ids[f] /\ Append(ids[f], In(c))[i] = ids[f][i]
                       \/ Append(ids[f], In(c))[i] = In(c)
                  /\ \A i \in DOMAIN ids[f] : /\ i \in DOMAIN Append(ids[f], In(c))
                                              /\ Append(ids[f], In(c))[i] = ids[f][i]
              BY <1>2, <2>3, AppendEntries
            <6> QED BY <5>2, <6>1, <6>2 DEF Sent
          <5> QED BY <1>4, <5>1, <5>2
        <4>2. call'[k] = call[k]
          BY <1>3, <3>3
        <4> QED BY <2>2, <2>3, <3>1, <4>1, <4>2 DEF StepInv
      <3> QED BY <3>2, <3>3
    <2>5. Rising(incoming'[f])
      BY <1>1, <2>2, <2>3 DEF StepInv
    <2> QED BY <2>4, <2>5
  <1> QED BY <1>6, <1>7, <1>8, <1>9, <1>11, <1>12 DEF ListenerInv

LEMMA AcceptInv ==
  ASSUME TypeOK, ListenerInv, NEW c \in Opened, Accept(c)
  PROVE  ListenerInv'
  <1> DEFINE n == conns[c].to
  <1>1. c \in Conn /\ n \in Node /\ ConnInv(c) /\ EventInv(c)
    BY ConnTypes DEF ListenerInv
  <1>2. /\ UNCHANGED <<conns, call, at, incoming, ids, lstate, wires, mid>>
        /\ up[c] = "hello"
        /\ up' = [up EXCEPT ![c] = IF lstate[n] = "open" THEN "accepted" ELSE "lost"]
    BY DEF Accept
  <1>3. PICK reply \in BOOLEAN : Post(n, Incoming(c, reply))
    BY DEF Accept
  <1> DEFINE m == Incoming(c, reply)
  <1>4. m \in WireListenerEvent /\ m.t = "incoming" /\ m.c = c /\ \A e \in End : m # DropWire(e)
    BY <1>1, MessageTypes DEF Incoming, DropWire
  <1>5. \A k \in Conn : up'[k] = IF k = c THEN IF lstate[n] = "open" THEN "accepted" ELSE "lost"
                                 ELSE up[k]
    BY <1>1, <1>2 DEF TypeOK
  <1>6. \A k \in Conn : up'[k] = "welcome" <=> up[k] = "welcome"
    BY <1>2, <1>5
  <1>7. Opened' = Opened
    BY <1>2 DEF Opened
  <1> HIDE DEF m
  <1>8. \A k \in Node :
          /\ \A t, d : 
               /\ Awaits(inbox'[k], t, d) =>
                    \/ Awaits(inbox[k], t, d)
                    \/ k = n /\ lstate[n] = "open" /\ m.t = t /\ m.c = d
               /\ Single(inbox[k], t, d) /\ ~(Awaits(inbox[k], t, d) /\ m.t = t /\ m.c = d)
                    => Single(inbox'[k], t, d)
          /\ \A e : Forgets(inbox'[k], e) => Forgets(inbox[k], e) \/ m = DropWire(e)
          /\ inbox[k] # <<>> => inbox'[k] # <<>> /\ Head(inbox'[k]) = Head(inbox[k])
          /\ lstate[k] = "done" => inbox'[k] = inbox[k]
    BY <1>1, <1>3, <1>4, PostEvents DEF m
  <1>9. ASSUME NEW k \in Conn PROVE EventInv(k)'
    <2>1. EventInv(k)
      BY DEF ListenerInv
    <2>2. CASE k = c
      <3>1. \A j \in Node : ~Awaits(inbox[j], "outgoing", c) /\ ~Awaits(inbox[j], "incoming", c)
        BY <1>1, <1>2 DEF EventInv
      <3>2. at[In(c)] = "none"
        BY <1>1, <1>2 DEF ConnInv
      <3>3. \A j \in Node : /\ Single(inbox'[j], "outgoing", c) /\ Single(inbox'[j], "incoming", c)
                            /\ ~Awaits(inbox'[j], "outgoing", c)
                            /\ Awaits(inbox'[j], "incoming", c) => j = n /\ lstate[n] = "open"
        BY <1>1, <1>4, <1>8, <3>1 DEF EventInv
      <3> QED BY <1>1, <1>2, <1>5, <1>7, <2>2, <3>2, <3>3 DEF EventInv
    <2>3. CASE k # c
      BY <1>2, <1>4, <1>5, <1>7, <1>8, <2>1, <2>3 DEF EventInv
    <2> QED BY <2>2, <2>3
  <1>10. ASSUME NEW k \in Conn PROVE ConnInv(k)'
    <2>1. ConnInv(k)
      BY DEF ListenerInv
    <2>2. CASE k = c
      BY <1>2, <1>5, <1>7, <2>1, <2>2 DEF ConnInv
    <2>3. CASE k # c
      BY <1>2, <1>5, <1>7, <2>1, <2>3 DEF ConnInv
    <2> QED BY <2>2, <2>3
  <1>11. ASSUME NEW k \in Node PROVE MidInv(k)'
    <2>1. mid[k] # 0 => mid[k] \in Conn
      BY MaxConnsAssumption DEF TypeOK, Conn
    <2> QED BY <1>2, <1>6, <1>8, <2>1 DEF ListenerInv, MidInv
  <1>12. ASSUME NEW k \in Conn, NEW s \in End, Kid(k, s)' PROVE KidInv(k, s)'
    BY <1>2, <1>6, <1>12, KidKeep
  <1>13. ASSUME NEW f \in End
         PROVE  EndInv(f)' /\ QueueInv(f)' /\ PlaceInv(f)' /\ OrderInv(f)' /\ StepInv(f)'
    <2>1. EndInv(f)
      BY DEF ListenerInv
    <2>2. \A k \in Node : Forgets(inbox'[k], f) => Forgets(inbox[k], f)
      BY <1>4, <1>8 DEF m
    <2>3. EndInv(f)'
      BY <1>2, <1>7, <2>1, <2>2
         DEF EndInv, QueueGone, CanTake, Ends, Registered, Owner, Parent
    <2>4. QueueInv(f)'
      BY <1>2, QueueKeep DEF CanTake
    <2>5. PlaceInv(f)'
      BY <1>2 DEF ListenerInv, PlaceInv, InQueue
    <2>6. OrderInv(f)'
      BY <1>2, OrderKeep
    <2>7. StepInv(f)'
      BY <1>2, StepKeep DEF CanTake
    <2> QED BY <2>3, <2>4, <2>5, <2>6, <2>7
  <1> QED BY <1>9, <1>10, <1>11, <1>12, <1>13 DEF ListenerInv

-----------------------------------------------------------------------------
(* Steps that only post an event, or end the listener or what it forgets.   *)

LEMMA QuietKeeps ==
  ASSUME TypeOK, ListenerInv, UNCHANGED <<conns, up, call, at, incoming, ids, mid>>,
         \A c \in Conn : EventInv(c)', \A n \in Node : MidInv(n)', \A e \in End : EndInv(e)'
  PROVE  ListenerInv'
  <1>1. Opened' = Opened
    BY DEF Opened
  <1>2. \A c \in Conn : ConnInv(c)'
    BY <1>1 DEF ListenerInv, ConnInv
  <1>3. ASSUME NEW c \in Conn, NEW s \in End, Kid(c, s)' PROVE KidInv(c, s)'
    BY <1>3, KidKeep
  <1>4. ASSUME NEW e \in End
        PROVE  QueueInv(e)' /\ PlaceInv(e)' /\ OrderInv(e)' /\ StepInv(e)'
    <2>1. QueueInv(e)'
      BY QueueKeep DEF CanTake
    <2>2. PlaceInv(e)'
      BY DEF ListenerInv, PlaceInv, InQueue
    <2>3. OrderInv(e)'
      BY OrderKeep
    <2>4. StepInv(e)'
      BY StepKeep DEF CanTake
    <2> QED BY <2>1, <2>2, <2>3, <2>4
  <1> QED BY <1>2, <1>3, <1>4 DEF ListenerInv

\* An event that concerns no connection.
LEMMA PostInv ==
  ASSUME TypeOK, ListenerInv, NEW n \in Node, NEW m \in WireListenerEvent, Post(n, m),
         m.t \notin {"outgoing", "incoming"},
         \A e \in End : m = DropWire(e) => QueueGone(e),
         UNCHANGED <<conns, up, call, at, incoming, ids, lstate, wires, mid>>
  PROVE  ListenerInv'
  <1>1. Opened' = Opened
    BY DEF Opened
  <1>2. \A k \in Node :
          /\ \A t, c : t \in {"outgoing", "incoming"} =>
               /\ Awaits(inbox'[k], t, c) => Awaits(inbox[k], t, c)
               /\ Single(inbox[k], t, c) => Single(inbox'[k], t, c)
          /\ \A e : Forgets(inbox'[k], e) => Forgets(inbox[k], e) \/ m = DropWire(e)
          /\ inbox[k] # <<>> => inbox'[k] # <<>> /\ Head(inbox'[k]) = Head(inbox[k])
          /\ lstate[k] = "done" => inbox'[k] = inbox[k]
    BY PostEvents
  <1>3. \A c \in Conn : EventInv(c)'
    BY <1>1, <1>2 DEF ListenerInv, EventInv
  <1>4. \A k \in Node : MidInv(k)'
    BY <1>2 DEF ListenerInv, MidInv
  <1>5. ASSUME NEW e \in End PROVE EndInv(e)'
    <2>1. EndInv(e)
      BY DEF ListenerInv
    <2>2. \A k \in Node : Forgets(inbox'[k], e) => QueueGone(e)
      BY <1>2, <2>1 DEF EndInv
    <2> QED BY <1>1, <2>1, <2>2 DEF EndInv, QueueGone, CanTake, Ends, Registered, Owner, Parent
  <1> QED BY <1>3, <1>4, <1>5, QuietKeeps

LEMMA ListenQuietInv ==
  ASSUME TypeOK, ListenerInv, NEW n \in Node,
         ListenDrop(n) \/ ListenShutdown(n) \/ ListenEnd(n)
  PROVE  ListenerInv'
  <1>1. UNCHANGED <<conns, up, call, at, incoming, ids, mid>> /\ mid[n] = 0
    BY DEF ListenDrop, ListenShutdown, ListenEnd, ListenAt
  <1>2. Opened' = Opened
    BY <1>1 DEF Opened
  <1>3. CASE ListenEnd(n)
    <2>1. /\ inbox' = inbox /\ inbox[n] = <<>>
          /\ \A k \in Node : /\ lstate'[k] = IF k = n THEN "done" ELSE lstate[k]
                             /\ wires'[k] = IF k = n THEN {} ELSE wires[k]
      BY <1>3 DEF ListenEnd, TypeOK
    <2>2. \A c \in Conn : EventInv(c)'
      BY <1>1, <1>2, <2>1 DEF ListenerInv, EventInv
    <2>3. \A k \in Node : MidInv(k)'
      BY <1>1, <2>1 DEF ListenerInv, MidInv
    <2>4. \A e \in End : EndInv(e)'
      BY <1>1, <1>2, <2>1
         DEF ListenerInv, EndInv, QueueGone, CanTake, Ends, Registered, Owner, Parent
    <2> QED BY <1>1, <2>2, <2>3, <2>4, QuietKeeps
  <1>4. CASE ListenDrop(n) \/ ListenShutdown(n)
    <2>1. inbox[n] # <<>> /\ Pop(n)
      BY <1>4 DEF ListenDrop, ListenShutdown, ListenAt
    <2>2. \A k \in Node :
            /\ k # n => inbox'[k] = inbox[k]
            /\ \A t, c : /\ Awaits(inbox'[k], t, c) => Awaits(inbox[k], t, c)
                         /\ Single(inbox[k], t, c) => Single(inbox'[k], t, c)
            /\ \A e : Forgets(inbox'[k], e) => Forgets(inbox[k], e)
            /\ inbox[k] = <<>> => inbox'[k] = <<>>
      BY <2>1, PopEvents
    <2>3. lstate[n] # "done"
      BY <2>1 DEF ListenerInv, MidInv
    <2>4. \A k \in Node :
            /\ lstate'[k] = "done" <=> lstate[k] = "done"
            /\ wires'[k] \subseteq wires[k]
            /\ \A e \in End : e \in wires[k] /\ e \notin wires'[k] => QueueGone(e)
      <3>1. CASE ListenShutdown(n)
        BY <2>3, <3>1 DEF ListenShutdown, TypeOK
      <3>2. CASE ListenDrop(n)
        <4> DEFINE d == Head(inbox[n]).e
        <4>1. /\ lstate' = lstate
              /\ \A k \in Node : wires'[k] = IF k = n THEN wires[n] \ {d} ELSE wires[k]
          BY <3>2 DEF ListenDrop, TypeOK
        <4>2. Head(inbox[n]) = DropWire(d) /\ d \in End
          BY <2>1, <3>2, HeadType DEF ListenDrop, ListenAt, WireListenerEvent, Shutdown, DropWire
        <4>3. Forgets(inbox[n], d)
          <5>1. inbox[n] \in Seq(WireListenerEvent)
            BY DEF TypeOK
          <5>2. 1 \in DOMAIN inbox[n] /\ inbox[n][1] = Head(inbox[n])
            BY <2>1, <5>1
          <5> QED BY <4>2, <5>2 DEF Forgets
        <4>4. QueueGone(d)
          BY <4>2, <4>3 DEF ListenerInv, EndInv
        <4> HIDE DEF d
        <4> QED BY <4>1, <4>4
      <3> QED BY <1>4, <3>1, <3>2
    <2>5. \A c \in Conn : EventInv(c)'
      BY <1>1, <1>2, <2>2 DEF ListenerInv, EventInv
    <2>6. ASSUME NEW k \in Node PROVE MidInv(k)'
      <3>1. MidInv(k)
        BY DEF ListenerInv
      <3> QED BY <1>1, <2>2, <2>4, <3>1 DEF MidInv
    <2>7. ASSUME NEW e \in End PROVE EndInv(e)'
      <3>1. EndInv(e)
        BY DEF ListenerInv
      <3>2. ~(QueueGone(e) /\ CanTake(e))
        BY DEF QueueGone, CanTake
      <3>3. /\ Registered(e)' <=> Registered(e)
            /\ e \in Ends' <=> e \in Ends
            /\ QueueGone(e)' <=> QueueGone(e)
            /\ CanTake(e)' <=> CanTake(e)
            /\ Owner(e)' = Owner(e) /\ at'[e] = at[e]
        BY <1>1, <1>2 DEF QueueGone, CanTake, Ends, Registered, Owner, Parent
      <3> QED BY <2>2, <2>4, <3>1, <3>2, <3>3 DEF EndInv
    <2> QED BY <1>1, <2>5, <2>6, <2>7, QuietKeeps
  <1> QED BY <1>3, <1>4

-----------------------------------------------------------------------------
(* The listener.                                                            *)

\* The connection that is handed to its opener's listener has no wire yet.
LEMMA OutgoingFacts ==
  ASSUME TypeOK, ListenerInv, NEW n \in Node, NEW c \in Conn,
         inbox[n] # <<>>, Head(inbox[n]).t = "outgoing", Head(inbox[n]).c = c, Pop(n)
  PROVE  /\ c \in Opened /\ n = conns[c].from /\ conns[c].bi /\ up[c] = "new"
         /\ at[Out(c)] = "none" /\ at[In(c)] = "none" /\ call[c] \in {"reply", "failed"}
         /\ \A k \in Node : ~Awaits(inbox'[k], "outgoing", c) /\ ~Awaits(inbox'[k], "incoming", c)
         /\ \A k \in Node : mid[k] # c /\ ~Forgets(inbox[k], Out(c)) /\ Out(c) \notin wires[k]
         /\ \A k \in Conn : ~Kid(k, In(c)) /\ ~Kid(k, Out(c))
         /\ incoming[Out(c)] = <<>> /\ lstate[n] # "done"
  <1>1. ConnInv(c) /\ EventInv(c) /\ MidInv(n) /\ EndInv(Out(c)) /\ QueueInv(Out(c))
    BY EndFacts DEF ListenerInv
  <1>2. Awaits(inbox[n], "outgoing", c)
    BY PopEvents
  <1>3. c \in Opened /\ n = conns[c].from /\ conns[c].bi /\ up[c] = "new"
    BY <1>1, <1>2 DEF EventInv
  <1>4. at[Out(c)] = "none" /\ at[In(c)] = "none" /\ call[c] \in {"reply", "failed"}
    BY <1>1, <1>3 DEF ConnInv, TypeOK
  <1>5. ~Awaits(inbox'[n], "outgoing", c)
    BY <1>1, PopEvents DEF EventInv
  <1>6. ASSUME NEW k \in Node
        PROVE  ~Awaits(inbox'[k], "outgoing", c) /\ ~Awaits(inbox'[k], "incoming", c)
    <2>1. /\ Awaits(inbox'[k], "outgoing", c) => Awaits(inbox[k], "outgoing", c)
          /\ Awaits(inbox'[k], "incoming", c) => Awaits(inbox[k], "incoming", c)
      BY PopEvents
    <2> QED BY <1>1, <1>3, <1>5, <2>1 DEF EventInv
  <1>7. ASSUME NEW k \in Node
        PROVE  mid[k] # c /\ ~Forgets(inbox[k], Out(c)) /\ Out(c) \notin wires[k]
    <2>1. MidInv(k) /\ c # 0
      BY MaxConnsAssumption DEF ListenerInv, Conn
    <2>2. mid[k] # c
      BY <1>3, <2>1 DEF MidInv
    <2> QED BY <1>1, <1>4, <2>2 DEF EndInv, QueueGone
  <1>8. ASSUME NEW k \in Conn PROVE ~Kid(k, In(c)) /\ ~Kid(k, Out(c))
    BY <1>3, EndFacts DEF ListenerInv, KidInv
  <1>9. incoming[Out(c)] = <<>> /\ lstate[n] # "done"
    BY <1>1, <1>4 DEF QueueInv, CanTake, MidInv
  <1> QED BY <1>3, <1>4, <1>6, <1>7, <1>8, <1>9

LEMMA ListenOutgoingInv ==
  ASSUME TypeOK, ListenerInv, NEW n \in Node, ListenOutgoing(n) \/ ListenOutgoingFails(n)
  PROVE  ListenerInv'
  <1>1. /\ mid[n] = 0 /\ inbox[n] # <<>> /\ Head(inbox[n]).t = "outgoing" /\ Pop(n)
        /\ UNCHANGED <<conns, incoming, ids, lstate, mid>>
    BY DEF ListenOutgoing, ListenOutgoingFails, ListenAt
  <1> PICK c \in Conn : c = Head(inbox[n]).c
    BY <1>1, HeadType
  <1>2. /\ c \in Opened /\ n = conns[c].from /\ conns[c].bi /\ up[c] = "new"
        /\ at[Out(c)] = "none" /\ at[In(c)] = "none" /\ call[c] \in {"reply", "failed"}
        /\ incoming[Out(c)] = <<>> /\ lstate[n] # "done"
    BY <1>1, OutgoingFacts
  <1>3. \A k \in Node : ~Awaits(inbox'[k], "outgoing", c) /\ ~Awaits(inbox'[k], "incoming", c)
    BY <1>1, OutgoingFacts
  <1>4. \A k \in Node : mid[k] # c /\ ~Forgets(inbox[k], Out(c)) /\ Out(c) \notin wires[k]
    BY <1>1, OutgoingFacts
  <1>5. \A k \in Conn : ~Kid(k, In(c)) /\ ~Kid(k, Out(c))
    BY <1>1, OutgoingFacts
  <1>6. \A k \in Node :
          /\ k # n => inbox'[k] = inbox[k]
          /\ \A t, d : /\ Awaits(inbox'[k], t, d) => Awaits(inbox[k], t, d)
                       /\ Single(inbox[k], t, d) => Single(inbox'[k], t, d)
          /\ \A e : Forgets(inbox'[k], e) => Forgets(inbox[k], e)
          /\ inbox[k] = <<>> => inbox'[k] = <<>>
    BY <1>1, PopEvents
  <1>7. /\ \/ /\ \A k \in Node : wires'[k] = IF k = n THEN wires[n] \cup {Out(c)} ELSE wires[k]
              /\ at'[Out(c)] # "none"
           \/ wires' = wires /\ at'[Out(c)] = "none"
        /\ \A d \in End : d # Out(c) => at'[d] = at[d]
        /\ \A k \in Conn : k # c => call'[k] = call[k] /\ up'[k] = up[k]
        /\ \/ at'[Out(c)] = "held" /\ call'[c] = "info" /\ call[c] = "reply" /\ up'[c] = "hello"
           \/ at'[Out(c)] = "dropped" /\ call'[c] = "failed" /\ call[c] = "failed" /\ up'[c] = "hello"
           \/ at'[Out(c)] = "none" /\ call'[c] = "failed" /\ up'[c] = "lost"
    <2>1. Out(c) \in End
      BY EndFacts
    <2>2. CASE ListenOutgoing(n)
      <3>1. /\ up' = [up EXCEPT ![c] = "hello"]
            /\ wires' = [wires EXCEPT ![n] = @ \cup {Out(c)}]
            /\ \/ /\ call[c] = "reply"
                  /\ at' = [at EXCEPT ![Out(c)] = "held"]
                  /\ call' = [call EXCEPT ![c] = "info"]
               \/ /\ call[c] # "reply"
                  /\ at' = [at EXCEPT ![Out(c)] = "dropped"]
                  /\ call' = call
        BY <2>2 DEF ListenOutgoing
      <3>2. /\ up'[c] = "hello" /\ \A k \in Conn : k # c => up'[k] = up[k]
            /\ \A k \in Node : wires'[k] = IF k = n THEN wires[n] \cup {Out(c)} ELSE wires[k]
        BY <3>1 DEF TypeOK
      <3>3. /\ \A d \in End : d # Out(c) => at'[d] = at[d]
            /\ \A k \in Conn : k # c => call'[k] = call[k]
            /\ \/ at'[Out(c)] = "held" /\ call'[c] = "info" /\ call[c] = "reply"
               \/ at'[Out(c)] = "dropped" /\ call'[c] = "failed" /\ call[c] = "failed"
        <4>1. CASE call[c] = "reply"
          <5>1. at' = [at EXCEPT ![Out(c)] = "held"] /\ call' = [call EXCEPT ![c] = "info"]
            BY <3>1, <4>1
          <5> QED BY <2>1, <4>1, <5>1 DEF TypeOK
        <4>2. CASE call[c] = "failed"
          <5>1. at' = [at EXCEPT ![Out(c)] = "dropped"] /\ call' = call
            BY <3>1, <4>2
          <5> QED BY <2>1, <4>2, <5>1 DEF TypeOK
        <4> QED BY <1>2, <4>1, <4>2
      <3> QED BY <3>2, <3>3
    <2>3. CASE ListenOutgoingFails(n)
      <3>1. /\ up' = [up EXCEPT ![c] = "lost"]
            /\ call' = [call EXCEPT ![c] = "failed"]
            /\ UNCHANGED <<at, wires>>
        BY <2>3 DEF ListenOutgoingFails
      <3>2. up'[c] = "lost" /\ \A k \in Conn : k # c => up'[k] = up[k]
        BY <3>1 DEF TypeOK
      <3>3. call'[c] = "failed" /\ \A k \in Conn : k # c => call'[k] = call[k]
        BY <3>1 DEF TypeOK
      <3> QED BY <1>2, <3>1, <3>2, <3>3
    <2> QED BY <2>2, <2>3
  <1>8. Opened' = Opened /\ \A k, s : Kid(k, s)' <=> Kid(k, s)
    BY <1>1 DEF Opened, Kid, Parent
  <1>9. \A k \in Conn : at'[In(k)] = at[In(k)] /\ (k # c => at'[Out(k)] = at[Out(k)])
    BY <1>7, EndFacts
  <1>10. ASSUME NEW k \in Conn PROVE EventInv(k)'
    <2>1. EventInv(k)
      BY DEF ListenerInv
    <2>2. CASE k = c
      BY <1>6, <1>3, <2>1, <2>2 DEF EventInv
    <2>3. CASE k # c
      <3>1. up'[k] = up[k] /\ at'[In(k)] = at[In(k)]
        BY <1>7, <1>9, <2>3
      <3> QED BY <1>1, <1>6, <1>8, <2>1, <3>1 DEF EventInv
    <2> QED BY <2>2, <2>3
  <1>11. ASSUME NEW k \in Conn PROVE ConnInv(k)'
    <2>1. ConnInv(k)
      BY DEF ListenerInv
    <2>2. CASE k = c
      BY <1>2, <1>7, <1>8, <1>9, <2>1, <2>2 DEF ConnInv
    <2>3. CASE k # c
      <3>1. /\ up'[k] = up[k] /\ call'[k] = call[k]
            /\ at'[In(k)] = at[In(k)] /\ at'[Out(k)] = at[Out(k)]
        BY <1>7, <1>9, <2>3
      <3> QED BY <1>1, <1>8, <2>1, <3>1 DEF ConnInv
    <2> QED BY <2>2, <2>3
  <1>12. ASSUME NEW k \in Node PROVE MidInv(k)'
    <2>1. /\ MidInv(k) /\ mid[k] # c
          /\ mid[k] # 0 => mid[k] \in Conn
      BY <1>4, MaxConnsAssumption DEF ListenerInv, TypeOK, Conn
    <2>2. mid[k] # 0 => inbox'[k] = inbox[k] /\ up'[mid[k]] = up[mid[k]]
      BY <1>1, <1>6, <1>7, <2>1
    <2> QED BY <1>1, <1>6, <2>1, <2>2 DEF MidInv
  <1>13. ASSUME NEW k \in Conn, NEW s \in End, Kid(k, s)' PROVE KidInv(k, s)'
    <2>1. \A j \in Conn : up'[j] = "welcome" <=> up[j] = "welcome"
      BY <1>2, <1>7
    <2>2. \A e \in End : at'[e] = "none" => at[e] = "none"
      BY <1>2, <1>7
    <2> QED BY <1>1, <1>13, <2>1, <2>2, KidKeep
  <1>14. ASSUME NEW e \in End PROVE EndInv(e)'
    <2>1. EndInv(e)
      BY DEF ListenerInv
    <2>2. /\ Registered(e)' <=> Registered(e)
          /\ e \in Ends' <=> e \in Ends
          /\ Owner(e)' = Owner(e)
      BY <1>1, <1>8 DEF Registered, Ends, Owner, Parent
    <2>3. CASE e = Out(c)
      <3>1. e \in Ends /\ Registered(e) /\ Owner(e) = n
        <4>1. e = Out(c) /\ e[1] = c /\ e[2] = "out" /\ c \in Opened
          BY <1>2, <2>3, EndFacts
        <4>2. e \in Ends
          BY <4>1 DEF Ends
        <4>3. Registered(e)
          BY <1>2, <4>1, Zenon DEF Registered
        <4>4. Owner(e) = n
          BY <1>2, <4>1 DEF Owner
        <4> QED BY <4>2, <4>3, <4>4
      <3>2. \A k \in Node : ~Forgets(inbox'[k], e)
        BY <1>6, <1>4, <2>3
      <3>3. \A k \in Node : e \in wires'[k] => k = n /\ at'[e] \notin {"none", "queued"}
        BY <1>7, <1>4, <2>3
      <3>4. CanTake(e)' => e \in wires'[n]
        BY <1>7, <2>3 DEF CanTake
      <3> QED BY <2>2, <3>1, <3>2, <3>3, <3>4 DEF EndInv
    <2>4. CASE e # Out(c)
      <3>1. at'[e] = at[e] /\ \A k \in Node : e \in wires'[k] <=> e \in wires[k]
        BY <1>7, <2>4
      <3>2. (QueueGone(e)' <=> QueueGone(e)) /\ (CanTake(e)' <=> CanTake(e))
        BY <3>1 DEF QueueGone, CanTake
      <3> QED BY <1>1, <1>6, <2>1, <2>2, <3>1, <3>2 DEF EndInv
    <2> QED BY <2>3, <2>4
  <1>15. ASSUME NEW e \in End
         PROVE  QueueInv(e)' /\ PlaceInv(e)' /\ OrderInv(e)' /\ StepInv(e)'
    <2>1. incoming'[e] = incoming[e] /\ ids'[e] = ids[e]
      BY <1>1
    <2>2. \A d : InQueue(e, d) => at'[d] = at[d]
      <3> SUFFICES ASSUME NEW d, InQueue(e, d) PROVE at'[d] = at[d]
        OBVIOUS
      <3>1. \E k \in Conn : d = In(k)
        BY QueuedFacts
      <3> QED BY <1>9, <3>1
    <2>3. incoming[e] # <<>> /\ CanTake(e) => CanTake(e)'
      BY <1>2, <1>7 DEF CanTake
    <2>4. QueueInv(e)'
      BY <1>1, <2>1, <2>2, <2>3, QueueKeep
    <2>5. PlaceInv(e)'
      BY <1>1, <1>7 DEF ListenerInv, PlaceInv, InQueue
    <2>6. \A k \in Conn : /\ call'[k] = "done" <=> call[k] = "done"
                          /\ call[k] \in {"done", "failed"} => call'[k] = call[k]
      BY <1>2, <1>7
    <2>7. OrderInv(e)'
      BY <1>1, <1>9, <2>1, <2>6, OrderKeep
    <2>8. CASE e # Out(c)
      <3>1. CanTake(e)' => CanTake(e)
        BY <1>7, <2>8 DEF CanTake
      <3>2. StepInv(e)'
        BY <1>1, <1>9, <2>1, <2>6, <3>1, StepKeep
      <3> QED BY <2>4, <2>5, <2>7, <3>2
    <2>9. CASE e = Out(c)
      <3>1. \A k \in Conn : ~Kid(k, Mirror(e))'
        BY <1>8, <1>5, <2>9, EndFacts
      <3>2. Rising(incoming'[e])
        <4>1. incoming'[e] = <<>>
          BY <1>2, <2>1, <2>9
        <4> QED BY <4>1 DEF Rising
      <3>3. StepInv(e)'
        BY <3>1, <3>2 DEF StepInv
      <3> QED BY <2>4, <2>5, <2>7, <3>3
    <2> QED BY <2>8, <2>9
  <1> QED BY <1>10, <1>11, <1>12, <1>13, <1>14, <1>15 DEF ListenerInv

LEMMA ListenIncomingInv ==
  ASSUME TypeOK, ListenerInv, NEW n \in Node, ListenIncoming(n)
  PROVE  ListenerInv'
  <1>1. /\ mid[n] = 0 /\ inbox[n] # <<>> /\ Head(inbox[n]).t = "incoming"
        /\ UNCHANGED <<conns, call, at, incoming, ids, inbox, lstate, wires>>
    BY DEF ListenIncoming, ListenAt
  <1> PICK c \in Conn : c = Head(inbox[n]).c
    BY <1>1, HeadType
  <1>2. up' = [up EXCEPT ![c] = "welcome"] /\ mid' = [mid EXCEPT ![n] = c]
    BY DEF ListenIncoming
  <1>3. /\ \A k \in Conn : up'[k] = IF k = c THEN "welcome" ELSE up[k]
        /\ \A k \in Node : mid'[k] = IF k = n THEN c ELSE mid[k]
    BY <1>2 DEF TypeOK
  <1>4. ConnInv(c) /\ EventInv(c) /\ c # 0
    BY MaxConnsAssumption DEF ListenerInv, Conn
  <1>5. Awaits(inbox[n], "incoming", c)
    BY <1>1, TailAwaits DEF TypeOK
  <1>6. /\ c \in Opened /\ n = conns[c].to /\ up[c] \in {"accepted", "welcome"}
        /\ at[In(c)] = "none"
    BY <1>4, <1>5 DEF EventInv
  <1>7. up[c] = "accepted" /\ at[Out(c)] # "none"
    BY <1>1, <1>4, <1>6 DEF ConnInv
  <1>8. Opened' = Opened /\ \A k, s : Kid(k, s)' <=> Kid(k, s)
    BY <1>1 DEF Opened, Kid, Parent
  <1>9. ASSUME NEW k \in Conn PROVE EventInv(k)'
    <2>1. EventInv(k)
      BY DEF ListenerInv
    <2>2. /\ up[k] = "new" => up'[k] = "new"
          /\ up[k] \in {"accepted", "welcome"} => up'[k] \in {"accepted", "welcome"}
      BY <1>3, <1>7
    <2> QED BY <1>1, <1>8, <2>1, <2>2 DEF EventInv
  <1>10. ASSUME NEW k \in Conn PROVE ConnInv(k)'
    <2>1. ConnInv(k)
      BY DEF ListenerInv
    <2>2. CASE k = c
      <3>1. up'[c] = "welcome" /\ mid'[conns[c].to] = c
        BY <1>3, <1>6
      <3> QED BY <1>1, <1>6, <1>7, <1>8, <2>1, <2>2, <3>1 DEF ConnInv
    <2>3. CASE k # c
      <3>1. up'[k] = up[k]
        BY <1>3, <2>3
      <3>2. up[k] = "welcome" => at[In(k)] # "none" \/ mid'[conns[k].to] = k
        <4>1. CASE conns[k].to = n
          <5>1. k # 0
            BY MaxConnsAssumption DEF Conn
          <5> QED BY <1>1, <2>1, <4>1, <5>1 DEF ConnInv
        <4>2. CASE conns[k].to # n
          <5>1. mid' = [mid EXCEPT ![n] = c]
            BY <1>2
          <5>2. mid'[conns[k].to] = mid[conns[k].to] \/ up[k] # "welcome"
            <6> SUFFICES ASSUME up[k] = "welcome" PROVE mid'[conns[k].to] = mid[conns[k].to]
              OBVIOUS
            <6>1. k \in Opened
              BY <2>1 DEF ConnInv
            <6>2. conns[k].to \in Node
              BY <6>1, ConnTypes
            <6> QED BY <1>3, <4>2, <6>2
          <5> QED BY <2>1, <5>2 DEF ConnInv
        <4> QED BY <4>1, <4>2
      <3> QED BY <1>1, <1>8, <2>1, <3>1, <3>2 DEF ConnInv
    <2> QED BY <2>2, <2>3
  <1>11. ASSUME NEW k \in Node PROVE MidInv(k)'
    <2>1. MidInv(k) /\ mid[k] \in 0..MaxConns
      BY DEF ListenerInv, TypeOK
    <2>2. CASE k = n
      BY <1>1, <1>3, <2>1, <2>2 DEF MidInv
    <2>3. CASE k # n
      <3>1. mid[k] # 0 => mid[k] \in Conn
        BY <2>1, MaxConnsAssumption DEF Conn
      <3> QED BY <1>1, <1>3, <2>1, <2>3, <3>1 DEF MidInv
    <2> QED BY <2>2, <2>3
  <1>12. ASSUME NEW k \in Conn, NEW s \in End, Kid(k, s)' PROVE KidInv(k, s)'
    <2>1. Kid(k, s) /\ KidInv(k, s) /\ s[1] \in Conn
      BY <1>8, <1>12, EndFacts DEF ListenerInv
    <2>2. s \in Ends' /\ conns'[k].to = Owner(Mirror(s))'
      BY <1>1, <1>8, <2>1 DEF KidInv, Ends, Owner
    <2>3. up'[s[1]] = "welcome"
      BY <1>3, <2>1 DEF KidInv
    <2>4. at[Mirror(s)] = "none" => up'[k] # "welcome"
      <3>1. CASE k # c
        BY <1>3, <2>1, <3>1 DEF KidInv
      <3>2. CASE k = c
        <4> DEFINE p == s[1]
        <4>1. up[p] = "welcome" /\ n = Owner(Mirror(s)) /\ ConnInv(p) /\ p # 0
          <5>1. up[p] = "welcome" /\ n = Owner(Mirror(s))
            BY <1>6, <2>1, <3>2 DEF KidInv
          <5>2. ConnInv(p)
            BY <2>1 DEF ListenerInv
          <5>3. p # 0
            BY <2>1, MaxConnsAssumption DEF Conn
          <5> QED BY <5>1, <5>2, <5>3
        <4>2. CASE s = Out(p)
          <5>1. Mirror(s) = In(p) /\ Owner(In(p)) = conns[p].to
            BY <4>2, EndFacts DEF Owner
          <5>2. at[In(p)] # "none"
            BY <1>1, <4>1, <5>1 DEF ConnInv
          <5> QED BY <5>1, <5>2
        <4>3. CASE s = In(p)
          <5>1. Mirror(s) = Out(p)
            BY <4>3, EndFacts
          <5>2. at[Out(p)] # "none"
            BY <4>1 DEF ConnInv
          <5> QED BY <5>1, <5>2
        <4> QED BY <4>2, <4>3, EndFacts
      <3> QED BY <3>1, <3>2
    <2> QED BY <1>1, <2>2, <2>3, <2>4 DEF KidInv
  <1>13. ASSUME NEW e \in End
         PROVE  EndInv(e)' /\ QueueInv(e)' /\ PlaceInv(e)' /\ OrderInv(e)' /\ StepInv(e)'
    <2>1. EndInv(e)'
      BY <1>1, <1>8 DEF ListenerInv, EndInv, QueueGone, CanTake, Ends, Registered, Owner, Parent
    <2>2. QueueInv(e)'
      BY <1>1, QueueKeep DEF CanTake
    <2>3. PlaceInv(e)'
      BY <1>1 DEF ListenerInv, PlaceInv, InQueue
    <2>4. OrderInv(e)'
      BY <1>1, OrderKeep
    <2>5. StepInv(e)'
      BY <1>1, StepKeep DEF CanTake
    <2> QED BY <2>1, <2>2, <2>3, <2>4, <2>5
  <1> QED BY <1>9, <1>10, <1>11, <1>12, <1>13 DEF ListenerInv

\* The wire that the listener is about to place is in no queue and no registry.
LEMMA PlaceFacts ==
  ASSUME TypeOK, ListenerInv, NEW n \in Node, NEW c \in Conn, mid[n] = c, Pop(n)
  PROVE  /\ c \in Opened /\ n = conns[c].to /\ up[c] = "welcome" /\ at[In(c)] = "none"
         /\ inbox[n] # <<>> /\ lstate[n] # "done" /\ incoming[In(c)] = <<>>
         /\ \A k \in Node : ~Awaits(inbox'[k], "outgoing", c) /\ ~Awaits(inbox'[k], "incoming", c)
         /\ \A k \in Node : ~Forgets(inbox[k], In(c)) /\ In(c) \notin wires[k]
         /\ \A k \in Node : mid[k] = c => k = n
  <1>1. ConnInv(c) /\ EventInv(c) /\ EndInv(In(c)) /\ QueueInv(In(c)) /\ c # 0
    BY EndFacts, MaxConnsAssumption DEF ListenerInv, Conn
  <1>2. ASSUME NEW k \in Node, mid[k] = c
        PROVE  Awaits(inbox[k], "incoming", c) /\ inbox[k] # <<>> /\ up[c] = "welcome"
    <2>1. /\ inbox[k] # <<>> /\ Head(inbox[k]).t = "incoming" /\ Head(inbox[k]).c = c
          /\ up[c] = "welcome"
      BY <1>1, <1>2 DEF ListenerInv, MidInv
    <2>2. inbox[k] \in Seq(WireListenerEvent)
      BY DEF TypeOK
    <2> QED BY <2>1, <2>2, TailAwaits
  <1>3. ASSUME NEW k \in Node, mid[k] = c
        PROVE  c \in Opened /\ k = conns[c].to /\ up[c] = "welcome" /\ at[In(c)] = "none"
    BY <1>1, <1>2, <1>3 DEF EventInv
  <1>4. inbox[n] # <<>> /\ Head(inbox[n]).t = "incoming" /\ Head(inbox[n]).c = c
    BY <1>1 DEF ListenerInv, MidInv
  <1>5. lstate[n] # "done" /\ incoming[In(c)] = <<>>
    BY <1>1, <1>3, <1>4 DEF QueueInv, CanTake, ListenerInv, MidInv
  <1>6. ASSUME NEW k \in Node
        PROVE  ~Awaits(inbox'[k], "outgoing", c) /\ ~Awaits(inbox'[k], "incoming", c)
    <2>1. /\ Awaits(inbox'[k], "outgoing", c) => Awaits(inbox[k], "outgoing", c)
          /\ Awaits(inbox'[k], "incoming", c) => Awaits(inbox[k], "incoming", c)
      BY <1>4, PopEvents
    <2>2. ~Awaits(inbox'[n], "incoming", c)
      BY <1>1, <1>4, PopEvents DEF EventInv
    <2>3. /\ Awaits(inbox[k], "outgoing", c) => up[c] = "new"
          /\ Awaits(inbox[k], "incoming", c) => k = conns[c].to
      BY <1>1 DEF EventInv
    <2> QED BY <1>3, <2>1, <2>2, <2>3
  <1>7. ASSUME NEW k \in Node PROVE ~Forgets(inbox[k], In(c)) /\ In(c) \notin wires[k]
    BY <1>1, <1>3 DEF EndInv, QueueGone
  <1> QED BY <1>3, <1>4, <1>5, <1>6, <1>7

\* It comes into being: the listener's part of the step is done.
LEMMA PlaceKeeps ==
  ASSUME TypeOK, ListenerInv, NEW n \in Node, NEW c \in Conn, mid[n] = c, Pop(n),
         mid' = [mid EXCEPT ![n] = 0], UNCHANGED <<conns, up, call, ids>>,
         \A k \in Node : lstate'[k] = "done" => lstate[k] = "done",
         at'[In(c)] # "none", \A d \in End : d # In(c) => at'[d] = at[d]
  PROVE  /\ \A k \in Conn : EventInv(k)' /\ ConnInv(k)'
         /\ \A k \in Node : MidInv(k)'
         /\ \A k \in Conn, s \in End : Kid(k, s)' => KidInv(k, s)'
  <1>1. /\ c \in Opened /\ n = conns[c].to /\ up[c] = "welcome" /\ at[In(c)] = "none"
        /\ inbox[n] # <<>>
    BY PlaceFacts
  <1>2. \A k \in Node : ~Awaits(inbox'[k], "outgoing", c) /\ ~Awaits(inbox'[k], "incoming", c)
    BY PlaceFacts
  <1>3. \A k \in Node :
          /\ k # n => inbox'[k] = inbox[k]
          /\ \A t, d : /\ Awaits(inbox'[k], t, d) => Awaits(inbox[k], t, d)
                       /\ Single(inbox[k], t, d) => Single(inbox'[k], t, d)
          /\ inbox[k] = <<>> => inbox'[k] = <<>>
    <2>1. inbox[n] # <<>>
      BY <1>1
    <2> QED BY <2>1, PopEvents
  <1>4. \A k \in Node : mid'[k] = IF k = n THEN 0 ELSE mid[k]
    BY DEF TypeOK
  <1>5. Opened' = Opened
    BY DEF Opened
  <1>6. \A k \in Conn : at'[Out(k)] = at[Out(k)] /\ (k # c => at'[In(k)] = at[In(k)])
    BY EndFacts
  <1>7. ASSUME NEW k \in Conn PROVE EventInv(k)'
    <2>1. EventInv(k)
      BY DEF ListenerInv
    <2>2. CASE k = c
      BY <1>2, <1>3, <2>1, <2>2 DEF EventInv
    <2>3. CASE k # c
      <3>1. at'[In(k)] = at[In(k)]
        BY <1>6, <2>3
      <3> QED BY <1>3, <1>5, <2>1, <3>1 DEF EventInv
    <2> QED BY <2>2, <2>3
  <1>8. ASSUME NEW k \in Conn PROVE ConnInv(k)'
    <2>1. ConnInv(k) /\ at'[Out(k)] = at[Out(k)]
      BY <1>6 DEF ListenerInv
    <2>2. CASE k = c
      BY <1>1, <1>5, <2>1, <2>2 DEF ConnInv
    <2>3. CASE k # c
      <3>1. at'[In(k)] = at[In(k)]
        BY <1>6, <2>3
      <3>2. up[k] = "welcome" => at[In(k)] # "none" \/ mid'[conns[k].to] = k
        <4> SUFFICES ASSUME up[k] = "welcome", at[In(k)] = "none" PROVE mid'[conns[k].to] = k
          OBVIOUS
        <4>1. mid[conns[k].to] = k /\ k \in Opened
          BY <2>1 DEF ConnInv
        <4>2. conns[k].to \in Node
          BY <4>1, ConnTypes
        <4>3. conns[k].to # n
          BY <2>3, <4>1
        <4> QED BY <1>4, <4>1, <4>2, <4>3
      <3> QED BY <1>5, <2>1, <3>1, <3>2 DEF ConnInv
    <2> QED BY <2>2, <2>3
  <1>9. ASSUME NEW k \in Node PROVE MidInv(k)'
    <2>1. MidInv(k)
      BY DEF ListenerInv
    <2>2. CASE k = n
      BY <1>3, <1>4, <2>1, <2>2 DEF MidInv
    <2>3. CASE k # n
      BY <1>3, <1>4, <2>1, <2>3 DEF MidInv
    <2> QED BY <2>2, <2>3
  <1>10. ASSUME NEW k \in Conn, NEW s \in End, Kid(k, s)' PROVE KidInv(k, s)'
    <2>1. \A e \in End : at'[e] = "none" => at[e] = "none"
      BY <1>1
    <2> QED BY <1>10, <2>1, KidKeep
  <1> QED BY <1>7, <1>8, <1>9, <1>10

\* A root wire goes into the registry.
LEMMA HandOverInv ==
  ASSUME TypeOK, ListenerInv, NEW n \in Node, NEW c \in Conn, c = mid[n],
         ListenPlace(n), Parent(c) = NoEnd
  PROVE  ListenerInv'
  <1>1. /\ Pop(n) /\ mid' = [mid EXCEPT ![n] = 0] /\ UNCHANGED <<conns, up, call, ids>>
        /\ HandOver(n, c, Head(inbox[n]).reply)
    BY DEF ListenPlace
  <1>2. /\ c \in Opened /\ n = conns[c].to /\ up[c] = "welcome" /\ at[In(c)] = "none"
        /\ inbox[n] # <<>> /\ lstate[n] # "done" /\ incoming[In(c)] = <<>>
    BY <1>1, PlaceFacts
  <1>3. \A k \in Node : ~Forgets(inbox[k], In(c)) /\ In(c) \notin wires[k]
    BY <1>1, PlaceFacts
  <1>4. In(c) \in End
    BY EndFacts
  <1>5. /\ at'[In(c)] \in {"held", "dropped"} /\ \A d \in End : d # In(c) => at'[d] = at[d]
        /\ incoming' = incoming
        /\ \A k \in Node : wires'[k] = IF k = n THEN wires[n] \cup {In(c)} ELSE wires[k]
    BY <1>1, <1>4 DEF HandOver, TypeOK
  <1>6. \A k \in Node : lstate'[k] = "done" <=> lstate[k] = "done"
    BY <1>1, <1>2 DEF HandOver, TypeOK
  <1>7. Opened' = Opened /\ \A k, s : Kid(k, s)' <=> Kid(k, s)
    BY <1>1 DEF Opened, Kid, Parent
  <1>8. \A k \in Node : \A e : Forgets(inbox'[k], e) => Forgets(inbox[k], e)
    BY <1>1, <1>2, PopEvents
  <1>9. ASSUME NEW e \in End PROVE EndInv(e)'
    <2>1. EndInv(e)
      BY DEF ListenerInv
    <2>2. /\ Registered(e)' <=> Registered(e)
          /\ e \in Ends' <=> e \in Ends
          /\ Owner(e)' = Owner(e)
      BY <1>1, <1>7 DEF Registered, Ends, Owner, Parent
    <2>3. CASE e = In(c)
      <3>1. e \in Ends /\ Registered(e) /\ Owner(e) = n
        <4>1. e = In(c) /\ e[1] = c /\ e[2] = "in" /\ c \in Opened
          BY <1>2, <2>3, EndFacts
        <4>2. e \in Ends
          BY <4>1 DEF Ends
        <4>3. Registered(e)
          BY <1>2, <4>1 DEF Registered
        <4>4. Owner(e) = n
          BY <1>2, <4>1 DEF Owner
        <4> QED BY <4>2, <4>3, <4>4
      <3>2. \A k \in Node : ~Forgets(inbox'[k], e)
        BY <1>3, <1>8, <2>3
      <3>3. at'[e] \notin {"none", "queued"} /\ e \in wires'[n]
        BY <1>5, <2>3
      <3> QED BY <2>2, <3>1, <3>2, <3>3 DEF EndInv
    <2>4. CASE e # In(c)
      <3>1. at'[e] = at[e] /\ \A k \in Node : e \in wires'[k] <=> e \in wires[k]
        BY <1>5, <2>4
      <3>2. (QueueGone(e)' <=> QueueGone(e)) /\ (CanTake(e)' <=> CanTake(e))
        BY <3>1 DEF QueueGone, CanTake
      <3> QED BY <1>6, <1>8, <2>1, <2>2, <3>1, <3>2 DEF EndInv
    <2> QED BY <2>3, <2>4
  <1>10. ASSUME NEW e \in End PROVE QueueInv(e)' /\ PlaceInv(e)'
    <2>1. incoming'[e] = incoming[e]
      BY <1>5
    <2>2. \A d : InQueue(e, d) => at'[d] = at[d]
      <3> SUFFICES ASSUME NEW d, InQueue(e, d) PROVE at'[d] = at[d]
        OBVIOUS
      <3>1. d \in End /\ at[d] = "queued"
        BY QueuedFacts
      <3> QED BY <1>2, <1>5, <3>1
    <2>3. incoming[e] # <<>> /\ CanTake(e) => CanTake(e)'
      BY <1>2, <1>5 DEF CanTake
    <2>4. QueueInv(e)'
      BY <1>1, <2>1, <2>2, <2>3, QueueKeep
    <2>5. PlaceInv(e)'
      BY <1>5 DEF ListenerInv, PlaceInv, InQueue
    <2> QED BY <2>4, <2>5
  <1>11. ASSUME NEW e \in End, NEW k \in Conn, Kid(k, Mirror(e))
         PROVE  k # c /\ at'[In(k)] = at[In(k)]
    <2>1. k # c
      BY <1>11, EndFacts DEF Kid
    <2>2. In(k) # In(c) /\ In(k) \in End
      BY <2>1, EndFacts
    <2> QED BY <1>5, <2>1, <2>2
  <1>12. ASSUME NEW e \in End PROVE OrderInv(e)'
    <2>1. OrderInv(e) /\ ids'[e] = ids[e]
      BY <1>1 DEF ListenerInv
    <2> QED BY <1>1, <1>7, <1>11, <2>1 DEF OrderInv
  <1>13. ASSUME NEW e \in End PROVE StepInv(e)'
    <2>1. ids'[e] = ids[e] /\ incoming'[e] = incoming[e]
      BY <1>1, <1>5
    <2>2. CASE e # In(c)
      <3>1. CanTake(e)' => CanTake(e)
        BY <1>5, <2>2 DEF CanTake
      <3> QED BY <1>1, <1>11, <2>1, <3>1, StepKeep
    <2>3. CASE e = In(c)
      <3>1. Rising(incoming'[e])
        <4>1. incoming'[e] = <<>>
          BY <1>2, <2>1, <2>3
        <4> QED BY <4>1 DEF Rising
      <3>2. ASSUME NEW k \in Conn, Kid(k, Mirror(e))'
            PROVE  at'[In(k)] = "none" /\ call'[k] # "done"
        <4>1. Kid(k, Mirror(e))
          BY <1>7, <3>2
        <4>2. at[Mirror(Mirror(e))] = "none" /\ Mirror(e) \in End
          BY <1>2, <2>3, EndFacts
        <4>3. up[k] # "welcome"
          BY <4>1, <4>2 DEF ListenerInv, KidInv
        <4>4. ConnInv(k)
          BY DEF ListenerInv
        <4>5. at[In(k)] = "none" /\ call[k] # "done"
          BY <4>3, <4>4 DEF ConnInv
        <4> QED BY <1>1, <1>11, <4>1, <4>5
      <3> QED BY <3>1, <3>2 DEF StepInv
    <2> QED BY <2>2, <2>3
  <1>14. /\ \A k \in Conn : EventInv(k)' /\ ConnInv(k)'
         /\ \A k \in Node : MidInv(k)'
         /\ \A k \in Conn, s \in End : Kid(k, s)' => KidInv(k, s)'
    BY <1>1, <1>5, <1>6, PlaceKeeps
  <1> QED BY <1>9, <1>10, <1>12, <1>13, <1>14 DEF ListenerInv

\* A forwarded wire goes behind those that were opened before it.
LEMMA ForwardInv ==
  ASSUME TypeOK, ListenerInv, NEW n \in Node, NEW c \in Conn, c = mid[n],
         ListenPlace(n), Parent(c) # NoEnd
  PROVE  ListenerInv'
  <1>1. /\ Pop(n) /\ mid' = [mid EXCEPT ![n] = 0] /\ UNCHANGED <<conns, up, call, ids>>
        /\ Forward(n, c)
    BY DEF ListenPlace
  <1>2. /\ c \in Opened /\ n = conns[c].to /\ up[c] = "welcome" /\ at[In(c)] = "none"
        /\ inbox[n] # <<>> /\ lstate[n] # "done" /\ incoming[In(c)] = <<>>
    BY <1>1, PlaceFacts
  <1>3. \A k \in Node : ~Forgets(inbox[k], In(c)) /\ In(c) \notin wires[k]
    BY <1>1, PlaceFacts
  <1>4. In(c) \in End /\ Parent(c) \in End /\ ConnInv(c) /\ c \in Nat /\ c # 0
    BY <1>2, ConnTypes, EndFacts, MaxConnsAssumption DEF ListenerInv, Conn
  <1> PICK target \in End : target = Mirror(Parent(c)) /\ Mirror(target) = Parent(c)
    BY <1>4, EndFacts
  <1>5. Kid(c, Mirror(target)) /\ n = Owner(target) /\ target # In(c)
    <2>1. Kid(c, Parent(c)) /\ KidInv(c, Parent(c))
      BY <1>2, <1>4 DEF ListenerInv, Kid
    <2>2. at[target] # "none"
      BY <1>2, <2>1 DEF KidInv
    <2> QED BY <1>2, <2>1, <2>2 DEF KidInv
  <1>6. /\ wires' = wires /\ lstate' = lstate
        /\ \A d \in End : d # In(c) => at'[d] = at[d]
        /\ \/ /\ target \in wires[n] /\ ~QueueGone(target) /\ at'[In(c)] = "queued"
              /\ \A d \in End : incoming'[d] = IF d = target THEN Append(incoming[d], In(c))
                                               ELSE incoming[d]
           \/ /\ ~(target \in wires[n] /\ ~QueueGone(target))
              /\ at'[In(c)] = "dropped" /\ incoming' = incoming
    <2>1. wires' = wires /\ lstate' = lstate
      BY <1>1 DEF Forward
    <2>2. CASE target \in wires[n] /\ ~QueueGone(target)
      <3>1. /\ incoming' = [incoming EXCEPT ![target] = Append(@, In(c))]
            /\ at' = [at EXCEPT ![In(c)] = "queued"]
        BY <1>1, <2>2 DEF Forward
      <3> QED BY <1>4, <2>1, <2>2, <3>1 DEF TypeOK
    <2>3. CASE ~(target \in wires[n] /\ ~QueueGone(target))
      <3>1. at' = [at EXCEPT ![In(c)] = "dropped"] /\ incoming' = incoming
        BY <1>1, <2>3 DEF Forward
      <3> QED BY <1>4, <2>1, <2>3, <3>1 DEF TypeOK
    <2> QED BY <2>2, <2>3
  <1>7. Opened' = Opened /\ \A k, s : Kid(k, s)' <=> Kid(k, s)
    BY <1>1 DEF Opened, Kid, Parent
  <1>8. \A k \in Node : \A e : Forgets(inbox'[k], e) => Forgets(inbox[k], e)
    BY <1>1, <1>2, PopEvents
  <1>9. /\ \A e \in End : CanTake(e)' <=> CanTake(e)
        /\ \A e \in End : QueueGone(e) => QueueGone(e)'
    BY <1>2, <1>6 DEF CanTake, QueueGone
  <1>10. \A e \in End : /\ Registered(e)' <=> Registered(e)
                        /\ e \in Ends' <=> e \in Ends
                        /\ Owner(e)' = Owner(e)
    BY <1>1, <1>7 DEF Registered, Ends, Owner, Parent
  <1>11. ASSUME NEW e \in End PROVE EndInv(e)'
    <2>1. EndInv(e)
      BY DEF ListenerInv
    <2>2. CASE e = In(c)
      <3>1. \A k \in Node : ~Forgets(inbox'[k], e) /\ e \notin wires'[k]
        BY <1>3, <1>6, <1>8, <2>2
      <3>2. ~CanTake(e)'
        BY <1>2, <1>9, <2>2 DEF CanTake
      <3> QED BY <3>1, <3>2 DEF EndInv
    <2>3. CASE e # In(c)
      <3>1. at'[e] = at[e]
        BY <1>6, <2>3
      <3> QED BY <1>6, <1>8, <1>9, <1>10, <2>1, <3>1 DEF EndInv
    <2> QED BY <2>2, <2>3
  <1>12. ASSUME NEW e \in End, NEW d, InQueue(e, d) PROVE at'[d] = at[d] /\ d # In(c)
    <2>1. d \in End /\ at[d] = "queued"
      BY <1>12, QueuedFacts
    <2> QED BY <1>2, <1>6, <2>1
  <1>13. incoming[target] \in Seq(End)
    BY DEF TypeOK
  <1> DEFINE q == Append(incoming[target], In(c))
  <1>14. /\ \A i \in DOMAIN q : \/ i \in DOMAIN incoming[target] /\ q[i] = incoming[target][i]
                              \/ q[i] = In(c)
         /\ \A i \in DOMAIN incoming[target] : i \in DOMAIN q /\ q[i] = incoming[target][i]
         /\ \E i \in DOMAIN q : q[i] = In(c)
    BY <1>4, <1>13, AppendEntries
  <1>15. ASSUME NEW i \in DOMAIN incoming[target]
         PROVE  \E k \in Conn : /\ incoming[target][i] = In(k) /\ Kid(k, Mirror(target))
                                /\ at[In(k)] = "queued" /\ at'[In(k)] = "queued" /\ k # c
    <2>1. PICK k \in Conn : /\ incoming[target][i] = In(k) /\ Kid(k, Mirror(target))
                            /\ at[In(k)] = "queued"
      BY DEF ListenerInv, QueueInv
    <2>2. InQueue(target, In(k))
      BY <2>1 DEF InQueue
    <2> QED BY <1>12, <2>1, <2>2
  <1>16. ASSUME NEW e \in End PROVE QueueInv(e)'
    <2>1. CASE incoming'[e] = incoming[e]
      BY <1>1, <1>9, <1>12, <2>1, QueueKeep
    <2>2. CASE incoming'[e] # incoming[e]
      <3>1. /\ e = target /\ target \in wires[n] /\ ~QueueGone(target)
            /\ at'[In(c)] = "queued" /\ incoming'[e] = Append(incoming[e], In(c))
        BY <1>6, <2>2
      <3>2. e \in Ends /\ CanTake(e) /\ Registered(e)
        <4>1. EndInv(target)
          BY DEF ListenerInv
        <4> QED BY <3>1, <4>1 DEF EndInv, QueueGone, CanTake, TypeOK
      <3>3. Distinct(Append(incoming[target], In(c)))
        <4>1. Distinct(incoming[target])
          BY DEF ListenerInv, QueueInv
        <4>2. \A i \in DOMAIN incoming[target] : incoming[target][i] # In(c)
          BY <1>15, EndFacts
        <4> QED BY <1>4, <1>13, <4>1, <4>2, AppendEntries
      <3>4. ASSUME NEW i \in DOMAIN Append(incoming[target], In(c))
            PROVE  \E k \in Conn : /\ Append(incoming[target], In(c))[i] = In(k)
                                   /\ Kid(k, Mirror(e))' /\ at'[In(k)] = "queued"
        <4>1. CASE Append(incoming[target], In(c))[i] = In(c)
          BY <1>5, <1>7, <3>1, <4>1
        <4>2. CASE i \in DOMAIN incoming[target]
                     /\ Append(incoming[target], In(c))[i] = incoming[target][i]
          BY <1>7, <1>15, <3>1, <4>2
        <4> QED BY <1>14, <4>1, <4>2
      <3> QED BY <1>9, <1>10, <3>1, <3>2, <3>3, <3>4 DEF QueueInv
    <2> QED BY <2>1, <2>2
  <1>17. ASSUME NEW d \in End PROVE PlaceInv(d)'
    <2> SUFFICES ASSUME at'[d] = "queued" PROVE \E e \in End : InQueue(e, d)'
      BY DEF PlaceInv
    <2>1. CASE d = In(c)
      <3>1. incoming'[target] = Append(incoming[target], In(c))
        BY <1>6, <2>1
      <3>2. InQueue(target, In(c))'
        BY <1>14, <3>1 DEF InQueue
      <3> QED BY <2>1, <3>2
    <2>2. CASE d # In(c)
      <3>1. at[d] = "queued"
        BY <1>6, <2>2
      <3>2. PICK e \in End : InQueue(e, d)
        BY <3>1 DEF ListenerInv, PlaceInv
      <3>3. CASE incoming'[e] = incoming[e]
        BY <3>2, <3>3 DEF InQueue
      <3>4. CASE incoming'[e] # incoming[e]
        <4>1. e = target /\ incoming'[e] = Append(incoming[target], In(c))
          BY <1>6, <3>4
        <4>2. \A i \in DOMAIN incoming[target] :
                /\ i \in DOMAIN Append(incoming[target], In(c))
                /\ Append(incoming[target], In(c))[i] = incoming[target][i]
          BY <1>14
        <4> QED BY <3>2, <4>1, <4>2 DEF InQueue
      <3> QED BY <3>3, <3>4
    <2> QED BY <2>1, <2>2
  <1>18. \A k \in Conn : k # c => at'[In(k)] = at[In(k)]
    BY <1>6, EndFacts
  <1>19. ASSUME NEW e \in End PROVE OrderInv(e)'
    <2>1. OrderInv(e) /\ ids'[e] = ids[e]
      BY <1>1 DEF ListenerInv
    <2>2. ASSUME NEW k \in Conn, NEW l \in Conn, Kid(k, Mirror(e)), Kid(l, Mirror(e)), k < l
          PROVE  /\ call[k] \in {"done", "failed"}
                 /\ call[k] = "done" /\ at'[In(l)] # "none" => at'[In(k)] # "none"
      <3>1. call[k] \in {"done", "failed"}
        BY <2>1, <2>2 DEF OrderInv
      <3>2. CASE k = c
        BY <1>6, <3>1, <3>2
      <3>3. CASE k # c /\ l # c
        <4>1. at'[In(k)] = at[In(k)] /\ at'[In(l)] = at[In(l)]
          BY <1>18, <3>3
        <4> QED BY <2>1, <2>2, <3>1, <4>1 DEF OrderInv
      <3>4. CASE k # c /\ l = c
        <4>1. at'[In(k)] = at[In(k)]
          BY <1>18, <3>4
        <4>2. Mirror(e) \in End /\ Mirror(Mirror(e)) = e /\ Mirror(e) = Parent(c)
          BY <2>2, <3>4, EndFacts DEF Kid
        <4>3. conns[k].to = Owner(Mirror(Mirror(e)))
          BY <2>2, <4>2 DEF ListenerInv, KidInv
        <4>4. conns[k].to = n
          BY <1>5, <4>2, <4>3
        <4>5. call[k] = "done" => at[In(k)] # "none"
          <5>1. ConnInv(k)
            BY DEF ListenerInv
          <5> QED BY <3>4, <4>4, <5>1 DEF ConnInv
        <4> QED BY <3>1, <4>1, <4>5
      <3> QED BY <3>2, <3>3, <3>4
    <2>3. \A i \in DOMAIN ids[e] :
            \E k \in Conn : ids[e][i] = In(k) /\ Kid(k, Mirror(e)) /\ call[k] = "done"
      BY <2>1 DEF OrderInv
    <2>4. \A k, l \in Conn :
            Kid(k, Mirror(e))' /\ Kid(l, Mirror(e))' /\ k < l =>
              /\ call'[k] \in {"done", "failed"}
              /\ call'[k] = "done" /\ at'[In(l)] # "none" => at'[In(k)] # "none"
      BY <1>1, <1>7, <2>2
    <2>5. \A i \in DOMAIN ids'[e] :
            \E k \in Conn : ids'[e][i] = In(k) /\ Kid(k, Mirror(e))' /\ call'[k] = "done"
      BY <1>1, <1>7, <2>1, <2>3
    <2>6. Rising(ids'[e])
      BY <2>1 DEF OrderInv
    <2> QED BY <2>4, <2>5, <2>6 DEF OrderInv
  <1>20. ASSUME NEW e \in End PROVE StepInv(e)'
    <2>1. CASE e # target
      <3>1. incoming'[e] = incoming[e] /\ ids'[e] = ids[e]
        BY <1>1, <1>6, <2>1
      <3>2. ASSUME NEW k \in Conn, Kid(k, Mirror(e)) PROVE at'[In(k)] = at[In(k)]
        <4>1. k # c
          BY <1>5, <2>1, <3>2, EndFacts DEF Kid
        <4> QED BY <1>18, <4>1
      <3> QED BY <1>1, <1>9, <3>1, <3>2, StepKeep
    <2>2. CASE e = target
      <3> SUFFICES ASSUME InStep(target)'
                   PROVE  /\ Rising(incoming'[target])
                          /\ \A k \in Conn : Kid(k, Mirror(target))' =>
                               /\ at'[In(k)] \notin {"none", "queued"} =>
                                    call'[k] = "done" /\ ~Sent(target, In(k))'
                               /\ at'[In(k)] \in {"none", "queued"} /\ call'[k] = "done" =>
                                    Sent(target, In(k))'
        BY <2>2 DEF StepInv
      <3>1. InStep(target)
        <4>1. ~OutOfStep(Mirror(target))
          BY <1>1, <1>7 DEF InStep, OutOfStep, Parent
        <4> QED BY <1>9, <1>10, <4>1 DEF InStep
      <3>2. StepInv(target) /\ OrderInv(target) /\ EndInv(target)
        BY DEF ListenerInv
      <3>3. target \in wires[n] /\ ~QueueGone(target)
        BY <1>2, <1>5, <3>1, <3>2 DEF InStep, EndInv, CanTake, QueueGone
      <3>4. incoming'[target] = Append(incoming[target], In(c)) /\ at'[In(c)] = "queued"
        BY <1>6, <3>3
      <3>5. ASSUME NEW i \in DOMAIN incoming[target] PROVE incoming[target][i][1] < In(c)[1]
        <4>1. PICK k \in Conn : /\ incoming[target][i] = In(k) /\ Kid(k, Mirror(target))
                                /\ at[In(k)] = "queued" /\ k # c
          BY <1>15
        <4>2. call[c] # "failed"
          BY <1>5, <3>1 DEF InStep, OutOfStep, Kid
        <4>3. ~(c < k)
          BY <1>2, <1>5, <3>2, <4>1, <4>2 DEF OrderInv
        <4>4. k \in Nat
          BY MaxConnsAssumption DEF Conn
        <4> QED BY <1>4, <4>1, <4>3, <4>4, EndFacts
      <3>6. Rising(incoming'[target])
        <4>1. Rising(incoming[target])
          BY <3>1, <3>2 DEF StepInv
        <4>2. Rising(q)
          BY <1>4, <1>13, <3>5, <4>1, AppendEntries
        <4> QED BY <3>4, <4>2
      <3>7. ASSUME NEW k \in Conn, Kid(k, Mirror(target))'
            PROVE  /\ at'[In(k)] \notin {"none", "queued"} =>
                        call'[k] = "done" /\ ~Sent(target, In(k))'
                   /\ at'[In(k)] \in {"none", "queued"} /\ call'[k] = "done" =>
                        Sent(target, In(k))'
        <4>1. Kid(k, Mirror(target)) /\ call'[k] = call[k]
          BY <1>1, <1>7, <3>7
        <4>2. Sent(target, In(k))' <=> Sent(target, In(k))
          BY <1>1 DEF Sent
        <4>3. at'[In(k)] \in {"none", "queued"} <=> at[In(k)] \in {"none", "queued"}
          <5>1. CASE k = c
            BY <1>2, <3>4, <5>1
          <5>2. CASE k # c
            BY <1>18, <5>2
          <5> QED BY <5>1, <5>2
        <4> QED BY <3>1, <3>2, <4>1, <4>2, <4>3 DEF StepInv
      <3> QED BY <3>6, <3>7
    <2> QED BY <2>1, <2>2
  <1>21. /\ \A k \in Conn : EventInv(k)' /\ ConnInv(k)'
         /\ \A k \in Node : MidInv(k)'
         /\ \A k \in Conn, s \in End : Kid(k, s)' => KidInv(k, s)'
    BY <1>1, <1>6, PlaceKeeps
  <1> QED BY <1>11, <1>16, <1>17, <1>19, <1>20, <1>21 DEF ListenerInv

-----------------------------------------------------------------------------
(* A new connection.                                                        *)

\* It comes after all others, and of its wires nothing is known yet.
LEMMA OpenFacts ==
  ASSUME TypeOK, ListenerInv, NEW n \in Node, NEW m \in Node, NEW parent \in End \cup {NoEnd},
         NEW bi \in BOOLEAN, Open(n, m, parent, bi), NEW c, c = Len(conns) + 1
  PROVE  /\ c \in Conn /\ c \notin Opened /\ Opened' = Opened \cup {c}
         /\ \A k \in Opened : conns'[k] = conns[k] /\ k < c
         /\ conns'[c].from = n /\ conns'[c].to = m /\ conns'[c].parent = parent
         /\ conns'[c].bi = bi
         /\ up[c] = "new" /\ at[Out(c)] = "none" /\ at[In(c)] = "none"
         /\ UNCHANGED <<incoming, ids, lstate, wires, mid>>
         /\ \A k \in Conn : k # c => call'[k] = call[k] /\ up'[k] = up[k]
         /\ \A d \in End : d # Out(c) => at'[d] = at[d]
         /\ \/ /\ bi /\ lstate[n] = "open" /\ Post(n, Outgoing(c))
               /\ call'[c] = "reply" /\ up'[c] = "new" /\ at'[Out(c)] = "none"
            \/ /\ bi /\ inbox' = inbox
               /\ call'[c] = "failed" /\ up'[c] = "lost" /\ at'[Out(c)] = "none"
            \/ /\ ~bi /\ inbox' = inbox
               /\ call'[c] = "info" /\ up'[c] = "hello" /\ at'[Out(c)] = "held"
  <1> DEFINE R == [from : Node, to : Node, parent : End \cup {NoEnd}, bi : BOOLEAN]
             r == [from |-> n, to |-> m, parent |-> parent, bi |-> bi]
  <1>1. c \in Conn /\ Len(conns) \in Nat
    BY MaxConnsAssumption DEF Open, TypeOK, Conn
  <1>2. conns \in Seq(R) /\ conns' = Append(conns, r) /\ r \in R
    BY DEF Open, TypeOK
  <1> HIDE DEF R, r
  <1>3. /\ Opened = 1..Len(conns) /\ Opened' = 1..(Len(conns) + 1)
        /\ conns'[c] = r /\ \A k \in 1..Len(conns) : conns'[k] = conns[k]
    BY <1>1, <1>2 DEF Opened
  <1>4. c \notin Opened /\ Opened' = Opened \cup {c} /\ \A k \in Opened : conns'[k] = conns[k] /\ k < c
    BY <1>1, <1>3
  <1>5. up[c] = "new" /\ at[Out(c)] = "none" /\ at[In(c)] = "none"
    BY <1>1, <1>4 DEF ListenerInv, ConnInv
  <1>6. UNCHANGED <<incoming, ids, lstate, wires, mid>>
    BY DEF Open
  <1>7. Out(c) \in End
    BY <1>1, EndFacts
  <1>8. CASE bi
    <2>1. /\ Post(n, Outgoing(c)) /\ at' = at
          /\ call' = [call EXCEPT ![c] = IF lstate[n] = "open" THEN "reply" ELSE "failed"]
          /\ up' = [up EXCEPT ![c] = IF lstate[n] = "open" THEN "new" ELSE "lost"]
      BY <1>8 DEF Open
    <2>2. lstate[n] # "open" => inbox' = inbox
      BY <2>1 DEF Post
    <2>3. /\ \A k \in Conn : k # c => call'[k] = call[k] /\ up'[k] = up[k]
          /\ call'[c] = IF lstate[n] = "open" THEN "reply" ELSE "failed"
          /\ up'[c] = IF lstate[n] = "open" THEN "new" ELSE "lost"
      BY <1>1, <2>1 DEF TypeOK
    <2> QED BY <1>1, <1>3, <1>4, <1>5, <1>6, <1>8, <2>1, <2>2, <2>3 DEF r
  <1>9. CASE ~bi
    <2>1. /\ inbox' = inbox
          /\ call' = [call EXCEPT ![c] = "info"]
          /\ up' = [up EXCEPT ![c] = "hello"]
          /\ at' = [at EXCEPT ![Out(c)] = "held"]
      BY <1>9 DEF Open
    <2>2. /\ \A k \in Conn : k # c => call'[k] = call[k] /\ up'[k] = up[k]
          /\ call'[c] = "info" /\ up'[c] = "hello"
          /\ at'[Out(c)] = "held" /\ \A d \in End : d # Out(c) => at'[d] = at[d]
      BY <1>1, <1>7, <2>1 DEF TypeOK
    <2> QED BY <1>1, <1>3, <1>4, <1>5, <1>6, <1>9, <2>1, <2>2 DEF r
  <1> QED BY <1>8, <1>9

LEMMA OpenInv ==
  ASSUME TypeOK, ListenerInv, NEW n \in Node, NEW m \in Node, NEW parent \in End \cup {NoEnd},
         NEW bi \in BOOLEAN, Open(n, m, parent, bi),
         parent \in End => /\ parent \in Ends /\ m = Owner(Mirror(parent))
                           /\ up[parent[1]] = "welcome"
                           /\ \A k \in Conn : Kid(k, parent) => call[k] \in {"done", "failed"}
  PROVE  ListenerInv'
  <1> PICK c : c = Len(conns) + 1
    OBVIOUS
  <1>1. /\ c \in Conn /\ c \notin Opened /\ Opened' = Opened \cup {c}
        /\ conns'[c].from = n /\ conns'[c].to = m /\ conns'[c].parent = parent
        /\ conns'[c].bi = bi
        /\ up[c] = "new" /\ at[Out(c)] = "none" /\ at[In(c)] = "none"
        /\ UNCHANGED <<incoming, ids, lstate, wires, mid>>
    BY OpenFacts
  <1>2. \A k \in Opened : conns'[k] = conns[k] /\ k < c
    BY OpenFacts
  <1>3. /\ \A k \in Conn : k # c => call'[k] = call[k] /\ up'[k] = up[k]
        /\ \A d \in End : d # Out(c) => at'[d] = at[d]
    BY OpenFacts
  <1>4. \/ /\ bi /\ lstate[n] = "open" /\ Post(n, Outgoing(c))
           /\ call'[c] = "reply" /\ up'[c] = "new" /\ at'[Out(c)] = "none"
        \/ /\ bi /\ inbox' = inbox
           /\ call'[c] = "failed" /\ up'[c] = "lost" /\ at'[Out(c)] = "none"
        \/ /\ ~bi /\ inbox' = inbox
           /\ call'[c] = "info" /\ up'[c] = "hello" /\ at'[Out(c)] = "held"
    BY OpenFacts
  <1>5. /\ Out(c) \in End /\ In(c) \in End /\ at'[In(c)] = "none"
        /\ \A k \in Conn : at'[In(k)] = at[In(k)] /\ (k # c => at'[Out(k)] = at[Out(k)])
    BY <1>1, <1>3, EndFacts
  <1>6. /\ \A k, s : Kid(k, s)' <=> Kid(k, s) \/ (k = c /\ s = parent)
        /\ \A k \in Opened : Parent(k)' = Parent(k)
        /\ Parent(c)' = parent
    BY <1>1, <1>2 DEF Kid, Parent
  <1>7. ASSUME NEW e \in Ends
        PROVE  e \in Ends' /\ Owner(e)' = Owner(e) /\ (Registered(e)' <=> Registered(e)) /\ e[1] # c
    <2>1. e[1] \in Opened
      BY EndTypes
    <2> QED BY <1>1, <1>2, <1>6, <2>1 DEF Ends, Owner, Registered
  <1>8. ASSUME NEW e \in Ends', e \notin Ends PROVE e = Out(c) \/ e = In(c)
    BY <1>1, <1>8 DEF Ends
  <1>9. ASSUME NEW k \in Node
        PROVE  /\ \A t, d : 
                    /\ Awaits(inbox'[k], t, d) =>
                         \/ Awaits(inbox[k], t, d)
                         \/ /\ k = n /\ t = "outgoing" /\ d = c /\ bi
                            /\ up'[c] = "new"
                    /\ Single(inbox[k], t, d) /\ ~(Awaits(inbox[k], t, d) /\ t = "outgoing" /\ d = c)
                         => Single(inbox'[k], t, d)
               /\ \A e : Forgets(inbox'[k], e) => Forgets(inbox[k], e)
               /\ inbox[k] # <<>> => inbox'[k] # <<>> /\ Head(inbox'[k]) = Head(inbox[k])
               /\ lstate[k] = "done" => inbox'[k] = inbox[k]
    <2>1. CASE inbox' = inbox
      BY <2>1
    <2>2. CASE bi /\ lstate[n] = "open" /\ Post(n, Outgoing(c)) /\ up'[c] = "new"
      <3>1. /\ Outgoing(c) \in WireListenerEvent /\ \A e : Outgoing(c) # DropWire(e)
            /\ Outgoing(c).t = "outgoing" /\ Outgoing(c).c = c
        BY <1>1, MessageTypes DEF Outgoing, DropWire
      <3> HIDE DEF Outgoing
      <3>2. /\ k # n \/ lstate[n] # "open" => inbox'[k] = inbox[k]
            /\ \A t, d : 
                 /\ Awaits(inbox'[k], t, d) =>
                      \/ Awaits(inbox[k], t, d)
                      \/ k = n /\ lstate[n] = "open" /\ Outgoing(c).t = t /\ Outgoing(c).c = d
                 /\ Single(inbox[k], t, d)
                     /\ ~(Awaits(inbox[k], t, d) /\ Outgoing(c).t = t /\ Outgoing(c).c = d)
                      => Single(inbox'[k], t, d)
            /\ \A e : Forgets(inbox'[k], e) => Forgets(inbox[k], e) \/ Outgoing(c) = DropWire(e)
            /\ inbox[k] # <<>> => inbox'[k] # <<>> /\ Head(inbox'[k]) = Head(inbox[k])
        BY <2>2, <3>1, PostEvents
      <3>3. lstate[k] = "done" => k # n
        BY <2>2
      <3> QED BY <2>2, <3>1, <3>2, <3>3
    <2> QED BY <1>4, <2>1, <2>2
  <1>10. ASSUME NEW k \in Conn PROVE EventInv(k)'
    <2>1. EventInv(k)
      BY DEF ListenerInv
    <2>2. CASE k = c
      <3>1. \A j \in Node : ~Awaits(inbox[j], "outgoing", c) /\ ~Awaits(inbox[j], "incoming", c)
        BY <1>1, <2>1, <2>2 DEF EventInv
      <3>2. \A j \in Node : /\ Single(inbox'[j], "outgoing", c) /\ Single(inbox'[j], "incoming", c)
                            /\ ~Awaits(inbox'[j], "incoming", c)
                            /\ Awaits(inbox'[j], "outgoing", c) => j = n /\ bi /\ up'[c] = "new"
        BY <1>9, <2>1, <2>2, <3>1 DEF EventInv
      <3> QED BY <1>1, <2>2, <3>2 DEF EventInv
    <2>3. CASE k # c
      <3>1. \A j \in Node :
              /\ Single(inbox'[j], "outgoing", k) /\ Single(inbox'[j], "incoming", k)
              /\ Awaits(inbox'[j], "outgoing", k) => Awaits(inbox[j], "outgoing", k)
              /\ Awaits(inbox'[j], "incoming", k) => Awaits(inbox[j], "incoming", k)
        BY <1>9, <2>1, <2>3 DEF EventInv
      <3>2. /\ up'[k] = up[k] /\ at'[In(k)] = at[In(k)]
            /\ k \in Opened => k \in Opened' /\ conns'[k] = conns[k]
        BY <1>1, <1>2, <1>3, <1>5, <2>3
      <3> QED BY <2>1, <3>1, <3>2 DEF EventInv
    <2> QED BY <2>2, <2>3
  <1>11. ASSUME NEW k \in Conn PROVE ConnInv(k)'
    <2>1. ConnInv(k)
      BY DEF ListenerInv
    <2>2. CASE k = c
      BY <1>1, <1>4, <1>5, <2>2 DEF ConnInv
    <2>3. CASE k # c
      <3>1. /\ up'[k] = up[k] /\ call'[k] = call[k] /\ mid' = mid
            /\ at'[In(k)] = at[In(k)] /\ at'[Out(k)] = at[Out(k)]
            /\ k \in Opened' <=> k \in Opened
        BY <1>1, <1>3, <1>5, <2>3
      <3>2. up[k] = "welcome" => conns'[k] = conns[k]
        BY <1>2, <2>1 DEF ConnInv
      <3> QED BY <2>1, <3>1, <3>2 DEF ConnInv
    <2> QED BY <2>2, <2>3
  <1>12. ASSUME NEW k \in Node PROVE MidInv(k)'
    <2>1. MidInv(k) /\ (mid[k] # 0 => mid[k] \in Conn)
      BY MaxConnsAssumption DEF ListenerInv, TypeOK, Conn
    <2>2. mid[k] # 0 => mid[k] # c
      BY <1>1, <2>1 DEF MidInv
    <2> QED BY <1>1, <1>3, <1>9, <2>1, <2>2 DEF MidInv
  <1>13. ASSUME NEW k \in Conn, NEW s \in End, Kid(k, s)' PROVE KidInv(k, s)'
    <2>1. Mirror(s) \in End /\ s[1] \in Conn
      BY EndFacts
    <2>2. at'[Mirror(s)] = "none" => at[Mirror(s)] = "none"
      BY <1>1, <1>3, <2>1
    <2>3. CASE Kid(k, s)
      <3>1. KidInv(k, s) /\ k \in Opened
        BY <2>3 DEF ListenerInv, Kid
      <3>2. s \in Ends' /\ Owner(Mirror(s))' = Owner(Mirror(s)) /\ s[1] # c
        BY <1>7, <3>1, EndTypes DEF KidInv
      <3>3. k # c /\ conns'[k] = conns[k]
        BY <1>1, <1>2, <3>1
      <3>4. up'[k] = up[k] /\ up'[s[1]] = up[s[1]]
        BY <1>3, <2>1, <3>2, <3>3
      <3> QED BY <2>2, <3>1, <3>2, <3>3, <3>4 DEF KidInv
    <2>4. CASE k = c /\ s = parent
      <3>1. s \in Ends /\ m = Owner(Mirror(s)) /\ up[s[1]] = "welcome"
        BY <2>4
      <3>2. s \in Ends' /\ Owner(Mirror(s))' = Owner(Mirror(s)) /\ s[1] # c
        BY <1>7, <3>1, EndTypes
      <3>3. up'[s[1]] = up[s[1]] /\ up'[c] # "welcome"
        BY <1>3, <1>4, <2>1, <3>2
      <3> QED BY <1>1, <2>4, <3>1, <3>2, <3>3 DEF KidInv
    <2> QED BY <1>6, <1>13, <2>3, <2>4
  <1>14. ASSUME NEW e \in End PROVE EndInv(e)'
    <2>1. EndInv(e)
      BY DEF ListenerInv
    <2>2. CASE e = Out(c)
      <3>1. \A k \in Node : ~Forgets(inbox'[k], e) /\ e \notin wires'[k]
        BY <1>1, <1>9, <2>1, <2>2 DEF EndInv, QueueGone
      <3>2. ~(CanTake(e)' /\ Registered(e)')
        BY <1>1, <1>4, <2>2, EndFacts DEF CanTake, Registered
      <3> QED BY <3>1, <3>2 DEF EndInv
    <2>3. CASE e # Out(c)
      <3>1. at'[e] = at[e] /\ wires' = wires /\ lstate' = lstate
        BY <1>1, <1>3, <2>3
      <3>2. (QueueGone(e)' <=> QueueGone(e)) /\ (CanTake(e)' <=> CanTake(e))
        BY <3>1 DEF QueueGone, CanTake
      <3>3. CASE e \in Ends
        BY <1>7, <1>9, <2>1, <3>1, <3>2, <3>3 DEF EndInv
      <3>4. CASE e \notin Ends
        <4>1. e \in Ends' => ~CanTake(e)'
          BY <1>1, <1>8, <2>3, <3>2, <3>4 DEF CanTake
        <4> QED BY <1>9, <2>1, <3>1, <3>2, <3>4, <4>1 DEF EndInv
      <3> QED BY <3>3, <3>4
    <2> QED BY <2>2, <2>3
  <1>15. ASSUME NEW e \in End PROVE QueueInv(e)' /\ PlaceInv(e)'
    <2>1. QueueInv(e) /\ incoming'[e] = incoming[e]
      BY <1>1 DEF ListenerInv
    <2>2. incoming[e] # <<>> => e \in Ends' /\ CanTake(e)' /\ Registered(e)'
      <3> SUFFICES ASSUME incoming[e] # <<>> PROVE e \in Ends' /\ CanTake(e)' /\ Registered(e)'
        OBVIOUS
      <3>1. e \in Ends /\ CanTake(e) /\ Registered(e)
        BY <2>1 DEF QueueInv
      <3>2. at'[e] = at[e]
        BY <1>1, <1>3, <3>1 DEF CanTake
      <3> QED BY <1>7, <3>1, <3>2 DEF CanTake
    <2>3. \A i \in DOMAIN incoming[e] :
            \E k \in Conn : incoming[e][i] = In(k) /\ Kid(k, Mirror(e))' /\ at'[In(k)] = "queued"
      BY <1>5, <1>6, <2>1 DEF QueueInv
    <2>4. QueueInv(e)'
      BY <2>1, <2>2, <2>3 DEF QueueInv
    <2>5. at'[e] = "queued" => at[e] = "queued"
      BY <1>3, <1>4
    <2>6. PlaceInv(e)'
      BY <1>1, <2>5 DEF ListenerInv, PlaceInv, InQueue
    <2> QED BY <2>4, <2>6
  <1>16. ASSUME NEW e \in End PROVE OrderInv(e)'
    <2>1. OrderInv(e) /\ ids'[e] = ids[e]
      BY <1>1 DEF ListenerInv
    <2>2. ASSUME NEW k \in Conn, NEW l \in Conn, Kid(k, Mirror(e))', Kid(l, Mirror(e))', k < l
          PROVE  /\ call'[k] \in {"done", "failed"}
                 /\ call'[k] = "done" /\ at'[In(l)] # "none" => at'[In(k)] # "none"
      <3>1. \A j \in Conn : Kid(j, Mirror(e)) => j # c /\ j < c
        BY <1>1, <1>2 DEF Kid
      <3>2. k # c /\ Kid(k, Mirror(e)) /\ call'[k] = call[k]
        <4>1. k # c
          <5>1. k = c => l = c \/ l < c
            BY <1>6, <2>2, <3>1
          <5>2. k \in Nat /\ l \in Nat /\ c \in Nat
            BY <1>1, MaxConnsAssumption DEF Conn
          <5> QED BY <2>2, <5>1, <5>2
        <4> QED BY <1>3, <1>6, <2>2, <4>1
      <3>3. CASE l = c
        <4>1. Mirror(e) = parent /\ parent \in End
          BY <2>2, <3>1, <3>3, <1>6, EndFacts
        <4> QED BY <1>5, <3>2, <3>3, <4>1
      <3>4. CASE l # c
        <4>1. Kid(l, Mirror(e))
          BY <1>6, <2>2, <3>4
        <4> QED BY <1>5, <2>1, <2>2, <3>2, <4>1 DEF OrderInv
      <3> QED BY <3>3, <3>4
    <2>3. ASSUME NEW i \in DOMAIN ids[e]
          PROVE  \E k \in Conn : ids[e][i] = In(k) /\ Kid(k, Mirror(e))' /\ call'[k] = "done"
      <3>1. PICK k \in Conn : ids[e][i] = In(k) /\ Kid(k, Mirror(e)) /\ call[k] = "done"
        BY <2>1 DEF OrderInv
      <3>2. k # c
        BY <1>1, <3>1 DEF Kid
      <3> QED BY <1>3, <1>6, <3>1, <3>2
    <2> QED BY <2>1, <2>2, <2>3 DEF OrderInv
  <1>17. ASSUME NEW e \in End PROVE StepInv(e)'
    <2> SUFFICES ASSUME InStep(e)'
                 PROVE  /\ Rising(incoming'[e])
                        /\ \A k \in Conn : Kid(k, Mirror(e))' =>
                             /\ at'[In(k)] \notin {"none", "queued"} =>
                                  call'[k] = "done" /\ ~Sent(e, In(k))'
                             /\ at'[In(k)] \in {"none", "queued"} /\ call'[k] = "done" =>
                                  Sent(e, In(k))'
      BY DEF StepInv
    <2>1. e # Out(c)
      BY <1>1, <1>4, EndFacts DEF InStep, CanTake, Registered
    <2>2. CanTake(e)
      BY <1>3, <2>1 DEF InStep, CanTake
    <2>3. e \in Ends
      BY <1>1, <1>8, <2>1, <2>2 DEF InStep, CanTake
    <2>4. Registered(e)
      BY <1>7, <2>3 DEF InStep
    <2>5. ~OutOfStep(Mirror(e))
      <3> SUFFICES ASSUME NEW k \in Opened, Parent(k) = Mirror(e), call[k] = "failed"
                   PROVE  FALSE
        BY DEF OutOfStep
      <3>1. k \in Conn /\ k # c /\ k \in Opened'
        BY <1>1, ConnTypes
      <3>2. Parent(k)' = Mirror(e) /\ call'[k] = "failed"
        BY <1>3, <1>6, <3>1
      <3> QED BY <3>1, <3>2 DEF InStep, OutOfStep
    <2>6. StepInv(e) /\ InStep(e)
      BY <2>2, <2>3, <2>4, <2>5 DEF ListenerInv, InStep
    <2>7. Rising(incoming'[e])
      BY <1>1, <2>6 DEF StepInv
    <2>8. ASSUME NEW k \in Conn, Kid(k, Mirror(e))'
          PROVE  /\ at'[In(k)] \notin {"none", "queued"} =>
                      call'[k] = "done" /\ ~Sent(e, In(k))'
                 /\ at'[In(k)] \in {"none", "queued"} /\ call'[k] = "done" => Sent(e, In(k))'
      <3>1. CASE k = c
        BY <1>4, <1>5, <3>1
      <3>2. CASE k # c
        <4>1. Kid(k, Mirror(e)) /\ call'[k] = call[k] /\ at'[In(k)] = at[In(k)]
          BY <1>3, <1>5, <1>6, <2>8, <3>2
        <4>2. Sent(e, In(k))' <=> Sent(e, In(k))
          BY <1>1 DEF Sent
        <4> QED BY <2>6, <4>1, <4>2 DEF StepInv
      <3> QED BY <3>1, <3>2
    <2> QED BY <2>7, <2>8
  <1> QED BY <1>10, <1>11, <1>12, <1>13, <1>14, <1>15, <1>16, <1>17 DEF ListenerInv

LEMMA StreamOnInv ==
  ASSUME TypeOK, ListenerInv, NEW e \in Ends, StreamOn(e)
  PROVE  ListenerInv'
  <1>1. /\ e \in End /\ e[1] \in Opened /\ e[1] \in Conn
        /\ Owner(e) \in Node /\ Owner(Mirror(e)) \in Node
    BY EndTypes, ConnTypes
  <1>2. conns[e[1]].bi \in BOOLEAN
    BY <1>1, ConnTypes
  <1>3. /\ at[e] \in {"held", "write_half"} /\ ~Borrowed(e) /\ ~Opening(e)
        /\ Open(Owner(e), Owner(Mirror(e)), e, conns[e[1]].bi)
    BY DEF StreamOn, CanOpen
  <1>4. up[e[1]] = "welcome"
    <2>1. ConnInv(e[1])
      BY <1>1 DEF ListenerInv
    <2>2. CASE e = In(e[1])
      BY <1>3, <2>1, <2>2 DEF ConnInv
    <2>3. CASE e = Out(e[1])
      <3>1. call[e[1]] \notin {"reply", "info"}
        BY <1>1, <1>3, <2>3 DEF Opening, Calling
      <3>2. call[e[1]] \in {"reply", "info", "done", "failed"}
        BY <1>1 DEF TypeOK
      <3> QED BY <1>3, <2>1, <2>3, <3>1, <3>2 DEF ConnInv
    <2> QED BY <1>1, <2>2, <2>3, EndFacts
  <1>5. \A k \in Conn : Kid(k, e) => call[k] \in {"done", "failed"}
    BY <1>3 DEF Borrowed, Calling, Kid, TypeOK
  <1> QED BY <1>1, <1>2, <1>3, <1>4, <1>5, OpenInv

-----------------------------------------------------------------------------
(* The invariant holds.                                                     *)

LEMMA InvInit == ASSUME Init PROVE ListenerInv
  <1>1. conns = <<>> /\ Opened = {}
    BY DEF Init, Opened
  <1>2. ASSUME NEW n \in Node
        PROVE  /\ inbox[n] = <<>> /\ wires[n] = {} /\ mid[n] = 0
               /\ \A t, c : ~Awaits(inbox[n], t, c) /\ Single(inbox[n], t, c)
               /\ \A e : ~Forgets(inbox[n], e)
    <2>1. inbox[n] = <<>> /\ wires[n] = {} /\ mid[n] = 0 /\ DOMAIN inbox[n] = {}
      BY DEF Init
    <2> QED BY <2>1 DEF Awaits, Single, Forgets
  <1>3. ASSUME NEW c \in Conn PROVE EventInv(c) /\ ConnInv(c)
    <2>1. up[c] = "new" /\ call[c] = "reply" /\ at[Out(c)] = "none" /\ at[In(c)] = "none"
      BY EndFacts DEF Init
    <2>2. EventInv(c)
      BY <1>2 DEF EventInv
    <2>3. ConnInv(c)
      BY <2>1 DEF ConnInv
    <2> QED BY <2>2, <2>3
  <1>4. \A n \in Node : MidInv(n)
    BY <1>2 DEF MidInv
  <1>5. \A c, s : ~Kid(c, s)
    BY <1>1 DEF Kid
  <1>6. ASSUME NEW e \in End
        PROVE  EndInv(e) /\ QueueInv(e) /\ PlaceInv(e) /\ OrderInv(e) /\ StepInv(e)
    <2>1. /\ at[e] = "none" /\ incoming[e] = <<>> /\ ids[e] = <<>>
          /\ DOMAIN incoming[e] = {} /\ DOMAIN ids[e] = {}
      BY DEF Init
    <2>2. EndInv(e)
      BY <1>2, <2>1 DEF EndInv, CanTake
    <2>3. QueueInv(e) /\ PlaceInv(e)
      BY <2>1 DEF QueueInv, Distinct, PlaceInv
    <2>4. OrderInv(e)
      BY <1>5, <2>1 DEF OrderInv, Rising
    <2>5. StepInv(e)
      BY <2>1 DEF StepInv, InStep, CanTake
    <2> QED BY <2>2, <2>3, <2>4, <2>5
  <1> QED BY <1>3, <1>4, <1>5, <1>6 DEF ListenerInv

LEMMA ListenStepInv ==
  ASSUME TypeOK, ListenerInv, NEW n \in Node, ListenStep(n)
  PROVE  ListenerInv'
  <1>1. CASE ListenOutgoing(n) \/ ListenOutgoingFails(n)
    BY <1>1, ListenOutgoingInv
  <1>2. CASE ListenIncoming(n)
    BY <1>2, ListenIncomingInv
  <1>3. CASE ListenPlace(n)
    <2>1. mid[n] \in Conn
      BY <1>3, MaxConnsAssumption DEF ListenPlace, TypeOK, Conn
    <2> PICK c \in Conn : c = mid[n]
      BY <2>1
    <2>2. CASE Parent(c) = NoEnd
      BY <1>3, <2>2, HandOverInv
    <2>3. CASE Parent(c) # NoEnd
      BY <1>3, <2>3, ForwardInv
    <2> QED BY <2>2, <2>3
  <1>4. CASE ListenDrop(n) \/ ListenShutdown(n) \/ ListenEnd(n)
    BY <1>4, ListenQuietInv
  <1> QED BY <1>1, <1>2, <1>3, <1>4 DEF ListenStep

LEMMA InvNext ==
  ASSUME TypeOK, ListenerInv, [Next]_vars
  PROVE  ListenerInv'
  <1>1. ASSUME UNCHANGED <<conns, up, call, at, incoming, ids, inbox, lstate, wires, mid>>
        PROVE  ListenerInv'
    <2>1. Opened' = Opened
      BY <1>1 DEF Opened
    <2>2. \A c \in Conn : EventInv(c)'
      BY <1>1, <2>1 DEF ListenerInv, EventInv
    <2>3. \A n \in Node : MidInv(n)'
      BY <1>1 DEF ListenerInv, MidInv
    <2>4. \A e \in End : EndInv(e)'
      BY <1>1, <2>1 DEF ListenerInv, EndInv, QueueGone, CanTake, Ends, Registered, Owner, Parent
    <2> QED BY <1>1, <2>2, <2>3, <2>4, QuietKeeps
  <1>2. CASE UNCHANGED vars
    BY <1>1, <1>2 DEF vars
  <1>3. ASSUME NEW n \in Node, NEW m \in Node, Connect(n, m) PROVE ListenerInv'
    <2>1. NoEnd \notin End
      BY EndFacts
    <2> QED BY <1>3, <2>1, OpenInv DEF Connect
  <1>4. ASSUME NEW n \in Node, ListenStep(n) PROVE ListenerInv'
    BY <1>4, ListenStepInv
  <1>5. ASSUME NEW n \in Node, ShutdownListener(n) PROVE ListenerInv'
    <2>1. /\ Post(n, Shutdown) /\ Shutdown \in WireListenerEvent
          /\ UNCHANGED <<conns, up, call, at, incoming, ids, lstate, wires, mid>>
      BY <1>5, MessageTypes DEF ShutdownListener
    <2>2. Shutdown.t \notin {"outgoing", "incoming"} /\ \A e \in End : Shutdown # DropWire(e)
      BY DEF Shutdown, DropWire
    <2> QED BY <2>1, <2>2, PostInv
  <1>6. ASSUME NEW n \in Node, GoDeaf(n) PROVE ListenerInv'
    BY <1>1, <1>6 DEF GoDeaf
  <1>7. ASSUME NEW c \in Opened, ConnStep(c) \/ Cancel(c) PROVE ListenerInv'
    BY <1>7, InfoReadInv, AcceptInv, FailsInv DEF ConnStep
  <1>8. ASSUME NEW e \in Ends, SignalDrop(e) PROVE ListenerInv'
    <2>1. e \in End /\ Owner(e) \in Node
      BY EndTypes
    <2>2. /\ Post(Owner(e), DropWire(e)) /\ DropWire(e) \in WireListenerEvent /\ QueueGone(e)
          /\ UNCHANGED <<conns, up, call, at, incoming, ids, lstate, wires, mid>>
      BY <1>8, <2>1, MessageTypes DEF SignalDrop
    <2>3. /\ DropWire(e).t \notin {"outgoing", "incoming"}
          /\ \A f \in End : DropWire(e) = DropWire(f) => QueueGone(f)
      BY <2>2 DEF DropWire
    <2> QED BY <2>1, <2>2, <2>3, PostInv
  <1>9. ASSUME NEW e \in Ends,
               \/ StreamOn(e) \/ TakeStream(e)
               \/ DropStream(e) \/ DropReadHalf(e) \/ DropWriteHalf(e)
        PROVE  ListenerInv'
    BY <1>9, StreamOnInv, TakeInv, DropInv, DropWriteHalfInv
  <1> QED BY <1>2, <1>3, <1>4, <1>5, <1>6, <1>7, <1>8, <1>9 DEF Next

LEMMA Invariant == Spec => [](TypeOK /\ ListenerInv)
  <1>1. Init => TypeOK /\ ListenerInv
    BY TypeInit, InvInit
  <1>2. TypeOK /\ ListenerInv => Busy
    BY DEF ListenerInv, MidInv, Busy
  <1>3. TypeOK /\ ListenerInv /\ [Next]_vars => (TypeOK /\ ListenerInv)'
    BY <1>2, TypeNext, InvNext
  <1> QED BY <1>1, <1>3, PTL DEF Spec

\* A wire is in the state "queued" exactly while it waits in the incoming queue of a wire,
\* in one place of one queue, and that wire's read half is held: Local.incoming of a wire
\* that was dropped, or whose read half was, keeps nothing.
THEOREM WiresQueuedOnce == Spec => []QueuedOnce
  <1>1. ASSUME TypeOK, ListenerInv PROVE QueuedOnce
    <2>1. \A e \in Ends : e \in End
      BY <1>1, EndTypes
    <2>2. ASSUME NEW d \in Ends, at[d] = "queued" PROVE \E e \in Ends : InQueue(e, d)
      <3>1. PICK e \in End : InQueue(e, d)
        BY <1>1, <2>1, <2>2 DEF ListenerInv, PlaceInv
      <3>2. incoming[e] # <<>>
        BY <1>1, <3>1, QueuedFacts
      <3> QED BY <1>1, <3>1, <3>2 DEF ListenerInv, QueueInv
    <2>3. ASSUME NEW d \in Ends, NEW e \in Ends, InQueue(e, d) PROVE at[d] = "queued"
      BY <1>1, <2>1, <2>3, QueuedFacts
    <2>4. ASSUME NEW e \in Ends, NEW f \in Ends,
                 NEW i \in DOMAIN incoming[e], NEW j \in DOMAIN incoming[f],
                 incoming[e][i] = incoming[f][j]
          PROVE  e = f /\ i = j
      <3>1. InQueue(e, incoming[e][i]) /\ InQueue(f, incoming[e][i])
        BY <2>4 DEF InQueue
      <3>2. e = f
        BY <1>1, <2>1, <3>1, QueuedFacts
      <3>3. Distinct(incoming[e])
        BY <1>1, <2>1 DEF ListenerInv, QueueInv
      <3> QED BY <2>4, <3>2, <3>3 DEF Distinct
    <2>5. \A e \in Ends : incoming[e] # <<>> => CanTake(e)
      BY <1>1, <2>1 DEF ListenerInv, QueueInv
    <2> QED BY <2>2, <2>3, <2>4, <2>5 DEF QueuedOnce
  <1> QED BY <1>1, Invariant, PTL

\* The listener finds every root wire, and every wire of a bi-directional opener, from the
\* moment it is handed out until its read half is dropped: a DropWire that the registry
\* serves is never ahead of its wire.
THEOREM WiresFound == Spec => []FoundWhileAlive
  <1>1. ASSUME TypeOK, ListenerInv PROVE FoundWhileAlive
    <2> SUFFICES ASSUME NEW e \in Ends, CanTake(e), lstate[Owner(e)] # "done", Registered(e)
                 PROVE  e \in wires[Owner(e)]
      BY DEF FoundWhileAlive, Registered
    <2>1. e \in End /\ Owner(e) \in Node
      BY <1>1, EndTypes
    <2> QED BY <1>1, <2>1 DEF ListenerInv, EndInv
  <1> QED BY <1>1, Invariant, PTL

\* The wire that Unwire::stream takes from the queue is the one whose id it has read, if no
\* stream() of its peer was given up half-way: ids are written, and wires forwarded, in the
\* order in which stream() was called, although by different tasks.
THEOREM StreamsPaired == Spec => []Paired
  <1>1. ASSUME TypeOK, ListenerInv PROVE Paired
    <2> SUFFICES ASSUME NEW e \in Ends, ids[e] # <<>>, incoming[e] # <<>>,
                        ~OutOfStep(Mirror(e))
                 PROVE  Head(ids[e]) = Head(incoming[e])
      BY DEF Paired
    <2>1. e \in End
      BY <1>1, EndTypes
    <2>2. InStep(e)
      BY <1>1, <2>1 DEF ListenerInv, QueueInv, InStep
    <2> QED BY <1>1, <2>1, <2>2, HeadsAgree
  <1> QED BY <1>1, Invariant, PTL

=============================================================================
