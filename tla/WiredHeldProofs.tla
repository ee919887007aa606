-------------------------- MODULE WiredHeldProofs --------------------------
(* Proofs of what reaches the other side of Wired: all messages of a stream  *)
(* that both ends hold, while nothing is torn down (the stream is in the     *)
(* maps of all four tasks); and all events, when all is shut down.           *)
EXTENDS WiredPathProofs

-----------------------------------------------------------------------------
(* Which entries are in a queue that gains or loses one.                    *)

LEMMA AppendQueued ==
  ASSUME NEW S, NEW q \in Seq(S), NEW e \in S, NEW f
  PROVE  Queued(Append(q, e), f) <=> Queued(q, f) \/ f = e
  <1> DEFINE r == Append(q, e)
             n == Len(q) + 1
  <1>1. /\ DOMAIN r = DOMAIN q \cup {n} /\ r[n] = e
        /\ \A i \in DOMAIN q : r[i] = q[i]
    OBVIOUS
  <1> HIDE DEF r, n
  <1>2. Queued(r, f) <=> Queued(q, f) \/ f = e
    BY <1>1 DEF Queued
  <1> QED BY <1>2 DEF r

LEMMA HeadQueued ==
  ASSUME NEW S, NEW q \in Seq(S), q # <<>>, NEW f
  PROVE  Queued(q, f) <=> Head(q) = f \/ Queued(Tail(q), f)
  <1> DEFINE r == Tail(q)
             h == Head(q)
  <1>1. /\ 1 \in DOMAIN q /\ q[1] = h
        /\ \A i \in DOMAIN r : i + 1 \in DOMAIN q /\ r[i] = q[i + 1]
        /\ \A i \in DOMAIN q : i = 1 \/ (i - 1 \in DOMAIN r /\ r[i - 1] = q[i])
    OBVIOUS
  <1> HIDE DEF r, h
  <1>2. Queued(q, f) <=> h = f \/ Queued(r, f)
    BY <1>1 DEF Queued
  <1> QED BY <1>2 DEF r, h

-----------------------------------------------------------------------------
(* Nothing is being torn down.                                              *)

UpSide(s) ==
  /\ wstate[s] = "open" /\ ustate[s] = "open" /\ reader[s] = "run"
  /\ ~Queued(wq[s], None) /\ ~Queued(uq[s], None)

\* While no handle is let go and the connection holds, no task is told to end, or does.
UpInv == Up => \A s \in Side : UpSide(s)

LEMMA UpGate ==
  ASSUME TypeOK, [Next]_vars, Up'
  PROVE  Up
  <1> USE DEF wiredVars, helperVars, netVars, halfVars
  <1> SUFFICES (broken => broken') /\ \A x \in Side : handle'[x] = "held" => handle[x] = "held"
    BY DEF Up, TypeOK
  <1>1. handle \in [Side -> {"held", "ending", "shutdown", "dropped"}]
    BY DEF TypeOK
  <1>2. CASE UNCHANGED vars
    BY <1>2 DEF vars
  <1>3. ASSUME NEW s \in Side, WiredStep(s) \/ ReaderStep(s) \/ HelperStep(s)
        PROVE  UNCHANGED <<broken, handle>>
    <2>1. CASE WiredStep(s)
      BY <2>1 DEF WiredStep, WiredNone, WiredConnect, WiredConnectFails, WiredEventFails,
                  WiredEventDone, WiredRegister, WiredMessage, WiredDrop, WiredEnd
    <2>2. CASE ReaderStep(s)
      BY <2>2 DEF ReaderStep, ReadOpen, ReadEvent, ReadMessage, ReadDrop, ReadEnd, ReadJoin
    <2>3. CASE HelperStep(s)
      BY <2>3 DEF HelperStep, HelperMessage, HelperRegister, HelperDrop, HelperNone, HelperEnd
    <2> QED BY <1>3, <2>1, <2>2, <2>3
  <1>4. ASSUME NEW s \in Side, AppStep(s)
        PROVE  broken' = broken /\ \A x \in Side : handle'[x] = "held" => handle[x] = "held"
    <2>1. \/ UNCHANGED <<broken, handle>>
          \/ /\ broken' = broken
             /\ \E h \in {"ending", "shutdown", "dropped"} : handle' = [handle EXCEPT ![s] = h]
      BY <1>4 DEF AppStep, Send, SendNone, Shutdown, Abort, AbandonShutdown, HalfStep, FlushBegin,
                  FlushEnd, ShutWrite, DropWrite, DropRead, PollRead, PollReadEof
    <2> QED BY <1>1, <2>1
  <1>5. CASE Break
    BY <1>5 DEF Break
  <1> QED BY <1>2, <1>3, <1>4, <1>5 DEF Next

\* Then both sides can write.
LEMMA UpWrites ==
  ASSUME UpInv, Up, NEW s \in Side
  PROVE  ~Down(s) /\ \A f : Write(s, f) => net' = [net EXCEPT ![s] = Append(@, f)] /\ wstate' = wstate
  <1>1. Peer(s) \in Side
    BY PeerSide
  <1>2. ~Down(s)
    BY <1>1 DEF UpInv, UpSide, Up, Down
  <1> QED BY <1>2 DEF Write

\* What can happen then: no task is told to end, no write fails.
LEMMA UpSteps ==
  ASSUME TypeOK, UpInv, Up, Up', [Next]_vars
  PROVE  \/ UNCHANGED vars
         \/ \E s \in Side :
              \/ WiredConnect(s) \/ WiredEventDone(s) \/ WiredRegister(s) \/ WiredMessage(s)
              \/ WiredDrop(s)
              \/ ReadOpen(s) \/ ReadEvent(s) \/ ReadMessage(s) \/ ReadDrop(s)
              \/ HelperMessage(s) \/ HelperRegister(s) \/ HelperDrop(s)
              \/ \E n \in 0..MaxChans : Send(s, n)
              \/ \E k \in Key : HalfStep(s, k)
  <1>1. ASSUME NEW s \in Side
        PROVE  /\ ~WiredNone(s) /\ ~WiredConnectFails(s) /\ ~WiredEventFails(s) /\ ~WiredEnd(s)
               /\ ~ReadEnd(s) /\ ~ReadJoin(s) /\ ~HelperNone(s) /\ ~HelperEnd(s)
    <2>1. /\ wstate[s] = "open" /\ ustate[s] = "open" /\ reader[s] = "run"
          /\ ~Queued(wq[s], None) /\ ~Queued(uq[s], None) /\ wstate[Peer(s)] = "open"
      BY PeerSide DEF UpInv, UpSide
    <2>2. ~WiredAt(s, "none")
      <3> SUFFICES ASSUME WiredAt(s, "none") PROVE FALSE
        OBVIOUS
      <3>1. /\ wq[s] \in Seq(WiredEvent) /\ wq[s] # <<>> /\ Head(wq[s]) \in WiredEvent
            /\ Head(wq[s]).t = "none"
        BY HeadW
      <3>2. Head(wq[s]) = None
        BY <3>1 DEF WiredEvent, None
      <3> QED BY <2>1, <3>1, <3>2, HeadQueued
    <2>3. ~HelperAt(s, "none")
      <3> SUFFICES ASSUME HelperAt(s, "none") PROVE FALSE
        OBVIOUS
      <3>1. uq[s] # <<>> /\ Head(uq[s]) \in UnwiredEvent /\ Head(uq[s]).t = "none"
        BY HeadU
      <3>2. Head(uq[s]) = None /\ uq[s] \in Seq(UnwiredEvent)
        BY <3>1 DEF UnwiredEvent, None, TypeOK
      <3> QED BY <2>1, <3>1, <3>2, HeadQueued
    <2>4. ~broken
      BY DEF Up
    <2>5. ~Down(s)
      BY UpWrites
    <2> QED BY <2>1, <2>2, <2>3, <2>4, <2>5
            DEF WiredNone, WiredConnectFails, WiredEventFails, WiredEnd, ReadEnd, ReadJoin,
                HelperNone, HelperEnd, Eof
  <1>2. ASSUME NEW s \in Side PROVE ~SendNone(s) /\ ~Shutdown(s) /\ ~Abort(s) /\ ~AbandonShutdown(s)
    <2>1. handle'[s] = "held" /\ handle \in [Side -> {"held", "ending", "shutdown", "dropped"}]
      BY DEF Up, TypeOK
    <2> QED BY <2>1 DEF SendNone, Shutdown, Abort, AbandonShutdown
  <1>3. ~Break
    BY DEF Up, Break
  <1> QED BY <1>1, <1>2, <1>3 DEF Next, WiredStep, ReaderStep, HelperStep, AppStep

-----------------------------------------------------------------------------
(* What the queues hold after a step.                                       *)

LEMMA PushWHolds ==
  ASSUME TypeOK, NEW s \in Side, NEW e \in WiredEvent, PushW(s, e), wstate[s] = "open",
         NEW x \in Side, NEW f
  PROVE  Queued(wq'[x], f) <=> Queued(wq[x], f) \/ (x = s /\ f = e)
  <1>1. wq \in [Side -> Seq(WiredEvent)] /\ wq[x] \in Seq(WiredEvent)
    BY DEF TypeOK
  <1>2. wq'[x] = IF x = s THEN Append(wq[x], e) ELSE wq[x]
    BY <1>1 DEF PushW, Pushed
  <1> QED BY <1>1, <1>2, AppendQueued

LEMMA PushUHolds ==
  ASSUME TypeOK, NEW s \in Side, NEW e \in UnwiredEvent, PushU(s, e), ustate[s] = "open",
         NEW x \in Side, NEW f
  PROVE  Queued(uq'[x], f) <=> Queued(uq[x], f) \/ (x = s /\ f = e)
  <1>1. uq \in [Side -> Seq(UnwiredEvent)] /\ uq[x] \in Seq(UnwiredEvent)
    BY DEF TypeOK
  <1>2. uq'[x] = IF x = s THEN Append(uq[x], e) ELSE uq[x]
    BY <1>1 DEF PushU, Pushed
  <1> QED BY <1>1, <1>2, AppendQueued

LEMMA PopWHolds ==
  ASSUME TypeOK, NEW s \in Side, wq[s] # <<>>, PopW(s), NEW x \in Side, NEW f
  PROVE  Queued(wq[x], f) <=> Queued(wq'[x], f) \/ (x = s /\ f = Head(wq[s]))
  <1>1. wq \in [Side -> Seq(WiredEvent)] /\ wq[x] \in Seq(WiredEvent)
    BY DEF TypeOK
  <1>2. wq'[x] = IF x = s THEN Tail(wq[x]) ELSE wq[x]
    BY <1>1 DEF PopW
  <1> QED BY <1>1, <1>2, HeadQueued

LEMMA PopUHolds ==
  ASSUME TypeOK, NEW s \in Side, NEW t, HelperAt(s, t), NEW x \in Side, NEW f
  PROVE  Queued(uq[x], f) <=> Queued(uq'[x], f) \/ (x = s /\ f = Head(uq[s]))
  <1>1. uq \in [Side -> Seq(UnwiredEvent)] /\ uq[x] \in Seq(UnwiredEvent) /\ uq[s] # <<>>
    BY DEF TypeOK, HelperAt
  <1>2. uq'[x] = IF x = s THEN Tail(uq[x]) ELSE uq[x]
    BY <1>1 DEF HelperAt
  <1> QED BY <1>1, <1>2, HeadQueued

LEMMA ReadHolds ==
  ASSUME TypeOK, NEW s \in Side, NEW t, Reading(s, t), NEW x \in Side, NEW f
  PROVE  Queued(net[x], f) <=> Queued(net'[x], f) \/ (x = Peer(s) /\ f = Head(net[Peer(s)]))
  <1>1. /\ net \in [Side -> Seq(WiringEvent)] /\ net[x] \in Seq(WiringEvent)
        /\ net[Peer(s)] # <<>> /\ Peer(s) \in Side
    BY PeerSide DEF TypeOK, Reading
  <1>2. net'[x] = IF x = Peer(s) THEN Tail(net[x]) ELSE net[x]
    BY <1>1 DEF Reading
  <1> QED BY <1>1, <1>2, HeadQueued

LEMMA SendHolds ==
  ASSUME TypeOK, NEW s \in Side, NEW e \in WiringEvent,
         net' = [net EXCEPT ![s] = Append(@, e)], NEW x \in Side, NEW f
  PROVE  Queued(net'[x], f) <=> Queued(net[x], f) \/ (x = s /\ f = e)
  <1>1. net \in [Side -> Seq(WiringEvent)] /\ net[x] \in Seq(WiringEvent)
    BY DEF TypeOK
  <1>2. net'[x] = IF x = s THEN Append(net[x], e) ELSE net[x]
    BY <1>1
  <1> QED BY <1>1, <1>2, AppendQueued

\* The entries and frames by which the sides learn that they are to end, or that a stream
\* comes or goes.
Signal(e) == e.t \in {"none", "register", "drop", "open"}

LEMMA Signals ==
  /\ Signal(None)
  /\ \A k : /\ Signal(Register(k)) /\ Signal(DropFrame(k)) /\ Signal(OpenFrame(k))
            /\ Signal(Drop(k, TRUE)) /\ Signal(Drop(k, FALSE))
            /\ ~Signal(Message(k)) /\ ~Signal(Event(k)) /\ \A n : ~Signal(Data(k, n))
  /\ ~Signal(EventFrame)
  BY DEF Signal, None, Register, DropFrame, OpenFrame, Drop, Message, Event, Data, EventFrame

LEMMA SignalsDiffer ==
  ASSUME NEW k, NEW j
  PROVE  /\ None # Register(k) /\ None # Drop(k, TRUE) /\ None # Drop(k, FALSE)
         /\ None # Message(k) /\ None # Event(k) /\ \A n : None # Data(k, n)
         /\ Register(k) # Drop(j, TRUE) /\ Register(k) # Drop(j, FALSE)
         /\ Drop(k, TRUE) # Drop(j, FALSE)
         /\ Register(k) = Register(j) => k = j
         /\ Drop(k, TRUE) = Drop(j, TRUE) => k = j
         /\ Drop(k, FALSE) = Drop(j, FALSE) => k = j
         /\ DropFrame(k) = DropFrame(j) => k = j
         /\ DropFrame(k) # OpenFrame(j)
  <1>1. /\ None.t = "none" /\ Register(k).t = "register" /\ Message(k).t = "message"
        /\ Event(k).t = "event" /\ \A n : Data(k, n).t = "data"
        /\ DropFrame(k).t = "drop" /\ OpenFrame(j).t = "open"
        /\ Register(k).k = k /\ Register(j).k = j /\ DropFrame(k).k = k /\ DropFrame(j).k = j
    BY DEF None, Register, Message, Event, Data, DropFrame, OpenFrame
  <1>2. /\ Drop(k, TRUE).t = "drop" /\ Drop(k, FALSE).t = "drop"
        /\ Drop(j, TRUE).t = "drop" /\ Drop(j, FALSE).t = "drop"
        /\ Drop(k, TRUE).k = k /\ Drop(k, FALSE).k = k
        /\ Drop(j, TRUE).k = j /\ Drop(j, FALSE).k = j
    BY DEF Drop
  <1>3. Drop(k, TRUE) # Drop(j, FALSE)
    <2>1. Drop(k, TRUE).broadcast = TRUE /\ Drop(j, FALSE).broadcast = FALSE
      BY DEF Drop
    <2> QED BY <2>1
  <1> QED BY <1>1, <1>2, <1>3

-----------------------------------------------------------------------------
(* UpInv is kept.                                                           *)

\* What a step does to the signals of the queues.
NoEnd(x) ==
  /\ Queued(wq'[x], None) => Queued(wq[x], None)
  /\ Queued(uq'[x], None) => Queued(uq[x], None)

LEMMA NoEndPushW ==
  ASSUME TypeOK, NEW s \in Side, NEW e \in WiredEvent, PushW(s, e), e # None, NEW x \in Side
  PROVE  Queued(wq'[x], None) => Queued(wq[x], None)
  BY PushWHolds DEF PushW, Pushed

LEMMA NoEndPushU ==
  ASSUME TypeOK, NEW s \in Side, NEW e \in UnwiredEvent, PushU(s, e), e # None, NEW x \in Side
  PROVE  Queued(uq'[x], None) => Queued(uq[x], None)
  BY PushUHolds DEF PushU, Pushed

\* Who is told to end by a step of the wired task, of the reader, of the helper and of the
\* applications: nobody.
LEMMA UpWired ==
  ASSUME TypeOK, UpInv, Up, NEW s \in Side,
         \/ WiredConnect(s) \/ WiredEventDone(s) \/ WiredRegister(s) \/ WiredMessage(s)
         \/ WiredDrop(s),
         NEW x \in Side
  PROVE  UNCHANGED <<wstate, ustate, reader>> /\ NoEnd(x)
  <1> USE DEF wiredVars, helperVars, netVars, halfVars
  <1>1. CASE WiredConnect(s)
    <2>1. nextId[s] + 1 \in WireId
      BY <1>1, NextIdType DEF WiredConnect
    <2>2. Register(Local(nextId[s] + 1)) \in UnwiredEvent /\ Register(Local(nextId[s] + 1)) # None
      BY <2>1, EventTypes, SignalsDiffer
    <2>3. /\ UNCHANGED <<wstate, ustate, reader>> /\ PushU(s, Register(Local(nextId[s] + 1)))
          /\ WiredAt(s, "event") /\ wq' = [wq EXCEPT ![s][1].chans = @ - 1]
      BY <1>1 DEF WiredConnect, Connected
    <2>4. Queued(wq'[x], None) => Queued(wq[x], None)
      <3>1. wq[s] \in Seq(WiredEvent) /\ wq[s] # <<>> /\ wq \in [Side -> Seq(WiredEvent)]
        BY <2>3, HeadW DEF TypeOK
      <3>2. Head(wq[s]) = wq[s][1] /\ wq[s][1] \in [t : {"event"}, chans : 0..MaxChans]
        BY <2>3, HeadW DEF WiredEvent, None
      <3> DEFINE a == [wq[s][1] EXCEPT !.chans = @ - 1]
      <3>3. a.t = "event"
        BY <3>2
      <3>4. a # None
        BY <3>3 DEF None
      <3>5. wq'[x] = IF x = s THEN [wq[s] EXCEPT ![1] = a] ELSE wq[x]
        BY <2>3, <3>1
      <3> HIDE DEF a
      <3>6. \A i \in DOMAIN [wq[s] EXCEPT ![1] = a] :
              i \in DOMAIN wq[s] /\ [wq[s] EXCEPT ![1] = a][i] \in {a, wq[s][i]}
        BY <3>1
      <3> QED BY <3>4, <3>5, <3>6 DEF Queued
    <2>5. Queued(uq'[x], None) => Queued(uq[x], None)
      BY <2>2, <2>3, NoEndPushU
    <2> QED BY <2>3, <2>4, <2>5 DEF NoEnd
  <1>2. CASE WiredEventDone(s)
    <2>1. wq[s] # <<>> /\ PopW(s) /\ UNCHANGED <<uq, ustate, reader>> /\ Write(s, EventFrame)
      BY <1>2 DEF WiredEventDone, WiredAt
    <2> QED BY <2>1, PopWHolds, UpWrites DEF NoEnd
  <1>3. CASE WiredRegister(s)
    <2>1. wq[s] # <<>> /\ PopW(s) /\ UNCHANGED <<uq, wstate, ustate, reader>>
      BY <1>3 DEF WiredRegister, WiredAt
    <2> QED BY <2>1, PopWHolds DEF NoEnd
  <1>4. CASE WiredMessage(s)
    <2>1. UNCHANGED <<uq, ustate, reader>>
      BY <1>4 DEF WiredMessage
    <2>2. wq[s] # <<>> /\ PopW(s) /\ wstate' = wstate
      BY <1>4, MessageWrites, UpWrites
    <2> QED BY <2>1, <2>2, PopWHolds DEF NoEnd
  <1>5. CASE WiredDrop(s)
    <2>1. UNCHANGED <<ustate, reader>>
      BY <1>5 DEF WiredDrop
    <2>2. PICK j \in Key :
            /\ wq[s] # <<>> /\ PopW(s)
            /\ \/ /\ PushU(s, Drop(j, FALSE))
                  /\ \/ Write(s, DropFrame(Mirror(j)))
                     \/ UNCHANGED <<wstate, net>>
               \/ UNCHANGED <<wired, wbuf, uq, wstate, net>>
      BY <1>5, DropWrites
    <2>3. wstate' = wstate
      BY <2>2, UpWrites
    <2>4. Drop(j, FALSE) \in UnwiredEvent /\ Drop(j, FALSE) # None
      BY EventTypes, SignalsDiffer
    <2>5. Queued(uq'[x], None) => Queued(uq[x], None)
      <3>1. CASE PushU(s, Drop(j, FALSE))
        BY <2>4, <3>1, NoEndPushU
      <3>2. CASE uq' = uq
        BY <3>2
      <3> QED BY <2>2, <3>1, <3>2
    <2> QED BY <2>1, <2>2, <2>3, <2>5, PopWHolds DEF NoEnd
  <1> QED BY <1>1, <1>2, <1>3, <1>4, <1>5

LEMMA UpReader ==
  ASSUME TypeOK, OpenedOnce, NEW s \in Side,
         ReadOpen(s) \/ ReadEvent(s) \/ ReadMessage(s) \/ ReadDrop(s), NEW x \in Side
  PROVE  UNCHANGED <<wstate, ustate, reader>> /\ NoEnd(x)
  <1> USE DEF wiredVars, helperVars, netVars, halfVars
  <1>1. CASE ReadOpen(s)
    <2>1. UNCHANGED <<wstate, ustate, reader>>
      BY <1>1 DEF ReadOpen
    <2>2. PICK id \in WireId :
            /\ PushW(s, Register(Remote(id))) /\ PushU(s, Register(Remote(id)))
            /\ Remote(id) \in Key
      BY <1>1, ReadsId
    <2>3. /\ Register(Remote(id)) \in WiredEvent /\ Register(Remote(id)) \in UnwiredEvent
          /\ Register(Remote(id)) # None
      BY <2>2, EventTypes, SignalsDiffer
    <2> QED BY <2>1, <2>2, <2>3, NoEndPushW, NoEndPushU DEF NoEnd
  <1>2. CASE ReadEvent(s)
    BY <1>2 DEF ReadEvent, NoEnd
  <1>3. CASE ReadMessage(s)
    <2>1. /\ UNCHANGED <<wq, wstate, ustate, reader>> /\ Reading(s, "data")
          /\ PushU(s, Head(net[Peer(s)]))
      BY <1>3 DEF ReadMessage
    <2>2. Head(net[Peer(s)]) \in UnwiredEvent /\ Head(net[Peer(s)]).t = "data"
      BY <2>1, HeadNet
    <2>3. Head(net[Peer(s)]) # None
      BY <2>2 DEF None
    <2> QED BY <2>1, <2>2, <2>3, NoEndPushU DEF NoEnd
  <1>4. CASE ReadDrop(s)
    <2>1. /\ UNCHANGED <<wq, wstate, ustate, reader>> /\ Reading(s, "drop")
          /\ PushU(s, Drop(Head(net[Peer(s)]).k, TRUE))
      BY <1>4 DEF ReadDrop
    <2>2. Head(net[Peer(s)]).k \in Key
      BY <2>1, HeadNet
    <2> PICK j \in Key : j = Head(net[Peer(s)]).k
      BY <2>2
    <2>3. PushU(s, Drop(j, TRUE)) /\ Drop(j, TRUE) \in UnwiredEvent /\ Drop(j, TRUE) # None
      BY <2>1, EventTypes, SignalsDiffer
    <2> QED BY <2>1, <2>3, NoEndPushU DEF NoEnd
  <1> QED BY <1>1, <1>2, <1>3, <1>4

LEMMA UpHelper ==
  ASSUME TypeOK, NEW s \in Side,
         HelperMessage(s) \/ HelperRegister(s) \/ HelperDrop(s), NEW x \in Side
  PROVE  UNCHANGED <<wstate, ustate, reader>> /\ NoEnd(x)
  <1> USE DEF wiredVars, netVars, halfVars
  <1>1. UNCHANGED <<wstate, ustate, reader>>
    BY DEF HelperMessage, HelperRegister, HelperDrop
  <1>2. Queued(uq'[x], None) => Queued(uq[x], None)
    BY PopUHolds DEF HelperMessage, HelperRegister, HelperDrop
  <1>3. Queued(wq'[x], None) => Queued(wq[x], None)
    <2>1. CASE HelperMessage(s) \/ HelperRegister(s)
      BY <2>1 DEF HelperMessage, HelperRegister
    <2>2. CASE HelperDrop(s)
      <3>1. /\ HelperAt(s, "drop")
            /\ PushW(s, Drop(Head(uq[s]).k, FALSE)) \/ wq' = wq
        BY <2>2 DEF HelperDrop
      <3>2. Head(uq[s]).k \in Key
        BY <3>1, HeadU
      <3> PICK j \in Key : j = Head(uq[s]).k
        BY <3>2
      <3>3. Drop(j, FALSE) \in WiredEvent /\ Drop(j, FALSE) # None
        BY EventTypes, SignalsDiffer
      <3>4. CASE PushW(s, Drop(j, FALSE))
        BY <3>3, <3>4, NoEndPushW
      <3> QED BY <3>1, <3>4
    <2> QED BY <2>1, <2>2
  <1> QED BY <1>1, <1>2, <1>3 DEF NoEnd

LEMMA UpApp ==
  ASSUME TypeOK, NEW s \in Side,
         (\E n \in 0..MaxChans : Send(s, n)) \/ (\E k \in Key : HalfStep(s, k)), NEW x \in Side
  PROVE  UNCHANGED <<wstate, ustate, reader>> /\ NoEnd(x)
  <1> USE DEF helperVars, netVars
  <1>1. UNCHANGED <<wstate, ustate, reader, uq>>
    BY DEF Send, HalfStep, FlushBegin, FlushEnd, ShutWrite, DropWrite, DropRead, PollRead,
           PollReadEof, wiredVars
  <1>2. ASSUME NEW n \in 0..MaxChans, Send(s, n)
        PROVE  Queued(wq'[x], None) => Queued(wq[x], None)
    <2>1. PushW(s, Event(n)) /\ Event(n) \in WiredEvent /\ Event(n) # None
      BY <1>2, EventTypes, SignalsDiffer DEF Send
    <2> QED BY <2>1, NoEndPushW
  <1>3. ASSUME NEW k \in Key, HalfStep(s, k)
        PROVE  Queued(wq'[x], None) => Queued(wq[x], None)
    <2>1. Message(k) \in WiredEvent /\ Drop(k, TRUE) \in WiredEvent
          /\ Message(k) # None /\ Drop(k, TRUE) # None
      BY EventTypes, SignalsDiffer
    <2>2. CASE FlushBegin(s, k) \/ PollRead(s, k) \/ PollReadEof(s, k)
      BY <2>2 DEF FlushBegin, FlushSend, SendData, PollRead, PollReadEof, wiredVars
    <2>3. CASE FlushEnd(s, k)
      <3>1. PushW(s, Message(k))
        BY <2>3 DEF FlushEnd, FlushSend, SendEvent
      <3> QED BY <2>1, <3>1, NoEndPushW
    <2>4. CASE ShutWrite(s, k) \/ DropWrite(s, k) \/ DropRead(s, k)
      <3>1. PushW(s, Drop(k, TRUE))
        BY <2>4 DEF ShutWrite, DropWrite, DropRead
      <3> QED BY <2>1, <3>1, NoEndPushW
    <2> QED BY <1>3, <2>2, <2>3, <2>4 DEF HalfStep
  <1> QED BY <1>1, <1>2, <1>3 DEF NoEnd

LEMMA UpInit == ASSUME Init PROVE UpInv
  BY DEF Init, UpInv, UpSide, Queued

LEMMA UpNext ==
  ASSUME TypeOK, OpenedOnce, UpInv, [Next]_vars
  PROVE  UpInv'
  <1> SUFFICES ASSUME Up', NEW x \in Side PROVE UpSide(x)'
    BY DEF UpInv
  <1>1. Up /\ UpSide(x)
    BY UpGate DEF UpInv
  <1>2. UNCHANGED <<wstate, ustate, reader>> /\ NoEnd(x)
    <2>1. CASE UNCHANGED vars
      BY <2>1 DEF vars, wiredVars, helperVars, NoEnd
    <2> QED BY <1>1, <2>1, UpSteps, UpWired, UpReader, UpHelper, UpApp
  <1> QED BY <1>1, <1>2 DEF UpSide, NoEnd

-----------------------------------------------------------------------------
(* A stream that goes, goes from all four maps.                             *)

\* The read half of stream k on side s is not there yet, or the helper still has its tx.
Sink(s, k) == Opened(s, k) => TxAlive(s, k)

\* A half of the stream has been closed or dropped on side s, on either side.
Gone(s, k) == wh[s][k] \in {"shut", "dropped"} \/ rh[s][k] = "dropped"
Parted(s, k) == Gone(s, k) \/ Gone(Peer(s), Mirror(k))

\* The drops of stream k on side s: in its W queue, in its U queue, and on its transport.
WDropped(s, k) == Queued(wq[s], Drop(k, TRUE)) \/ Queued(wq[s], Drop(k, FALSE))
UDropped(s, k) == Queued(uq[s], Drop(k, TRUE)) \/ Queued(uq[s], Drop(k, FALSE))
NDropped(s, k) == Queued(net[s], DropFrame(Mirror(k)))

\* Only a stream that is let go is dropped, so all others are in both maps of each side they
\* are open on.  A stream that has gone from one map has its drop on the way to the others;
\* a drop passed on by a task comes after the stream has gone from its map.
TornKey(s, k) ==
  /\ WDropped(s, k) \/ UDropped(s, k) \/ NDropped(s, k) => Parted(s, k)
  /\ ~Parted(s, k) => Source(s, k) /\ Sink(s, k)
  /\ Source(s, k) /\ ~Sink(s, k) => WDropped(s, k)
  /\ Sink(s, k) /\ ~Source(s, k) => UDropped(s, k)
  /\ Source(s, k) /\ ~Source(Peer(s), Mirror(k)) =>
       NDropped(Peer(s), Mirror(k)) \/ UDropped(s, k) \/ WDropped(s, k)
  /\ Queued(uq[s], Drop(k, FALSE)) => ~Source(s, k)
  /\ \/ NDropped(Peer(s), Mirror(k)) \/ Queued(uq[s], Drop(k, TRUE))
     \/ Queued(wq[s], Drop(k, FALSE))
     => ~Source(Peer(s), Mirror(k))

TornInv == Up => \A s \in Side, k \in Key : TornKey(s, k)

\* A step leaves the drops and the maps of stream k on side x alone.
DropsStill(x, k) ==
  /\ Queued(wq'[x], Drop(k, TRUE)) <=> Queued(wq[x], Drop(k, TRUE))
  /\ Queued(wq'[x], Drop(k, FALSE)) <=> Queued(wq[x], Drop(k, FALSE))
  /\ Queued(uq'[x], Drop(k, TRUE)) <=> Queued(uq[x], Drop(k, TRUE))
  /\ Queued(uq'[x], Drop(k, FALSE)) <=> Queued(uq[x], Drop(k, FALSE))
  /\ NDropped(x, k)' <=> NDropped(x, k)
MapsStill(x, k) ==
  /\ Source(x, k)' <=> Source(x, k)
  /\ Sink(x, k)' <=> Sink(x, k)
Still(x, k) == DropsStill(x, k) /\ MapsStill(x, k)

LEMMA TornStill ==
  ASSUME NEW s \in Side, NEW k \in Key, TornKey(s, k), Parted(s, k) => Parted(s, k)',
         Still(s, k), Still(Peer(s), Mirror(k))
  PROVE  TornKey(s, k)'
  BY DEF TornKey, Still, DropsStill, MapsStill, WDropped, UDropped

LEMMA TornMirror ==
  ASSUME NEW s \in Side, NEW k \in Key
  PROVE  Parted(s, k) <=> Parted(Peer(s), Mirror(k))
  BY PeerSide, MirrorKey DEF Parted

\* A half that is gone stays so.
LEMMA GoneGate ==
  ASSUME TypeOK, OpenedOnce, OrderedQueues, UpInv, Up, Up', [Next]_vars,
         NEW x \in Side, NEW k \in Key, Gone(x, k)
  PROVE  Gone(x, k)'
  <1> USE DEF wiredVars, helperVars, netVars, halfVars
  <1>1. /\ wh \in [Side -> [Key -> {"none", "open", "shut", "dropped"}]]
        /\ rh \in [Side -> [Key -> {"none", "open", "dropped"}]]
    BY DEF TypeOK
  <1>2. Opened(x, k)
    BY KnownOpened DEF Gone
  <1>3. rh[x][k] = "dropped" => rh'[x][k] = "dropped"
    BY <1>2, TxGate
  <1>4. wh[x][k] \in {"shut", "dropped"} => wh'[x][k] \in {"shut", "dropped"}
    <2>1. ASSUME NEW s \in Side, ReadOpen(s) \/ WiredConnect(s)
          PROVE  wh'[x][k] = wh[x][k]
      <3>1. PICK j \in Key, h \in {"open", "dropped"} : Opening(s, j, h)
        BY <2>1, StepOpening
      <3>2. ~(x = s /\ k = j)
        BY <1>2, <3>1 DEF Opening
      <3> QED BY <1>1, <3>1, <3>2 DEF Opening
    <2>2. ASSUME NEW s \in Side,
                 \/ WiredEventDone(s) \/ WiredRegister(s) \/ WiredMessage(s) \/ WiredDrop(s)
                 \/ ReadEvent(s) \/ ReadMessage(s) \/ ReadDrop(s)
                 \/ HelperMessage(s) \/ HelperRegister(s) \/ HelperDrop(s)
                 \/ \E n \in 0..MaxChans : Send(s, n)
          PROVE  wh' = wh
      BY <2>2 DEF WiredEventDone, WiredRegister, WiredMessage, WiredDrop, ReadEvent,
                  ReadMessage, ReadDrop, HelperMessage, HelperRegister, HelperDrop, Send
    <2>3. ASSUME NEW s \in Side, NEW j \in Key, HalfStep(s, j)
          PROVE  wh' = wh \/ \E h \in {"shut", "dropped"} : wh' = [wh EXCEPT ![s][j] = h]
      BY <2>3 DEF HalfStep, FlushBegin, FlushEnd, ShutWrite, DropWrite, DropRead, PollRead,
                  PollReadEof
    <2>4. CASE UNCHANGED vars
      BY <2>4 DEF vars
    <2>5. ASSUME NEW s \in Side, NEW j \in Key, HalfStep(s, j),
                 wh[x][k] \in {"shut", "dropped"}
          PROVE  wh'[x][k] \in {"shut", "dropped"}
      <3>1. CASE wh' = wh
        BY <2>5, <3>1
      <3>2. ASSUME NEW h \in {"shut", "dropped"}, wh' = [wh EXCEPT ![s][j] = h]
            PROVE  wh'[x][k] \in {"shut", "dropped"}
        <4>1. wh'[x][k] = IF x = s /\ k = j THEN h ELSE wh[x][k]
          BY <1>1, <3>2
        <4> QED BY <2>5, <4>1
      <3>3. wh' = wh \/ \E h \in {"shut", "dropped"} : wh' = [wh EXCEPT ![s][j] = h]
        BY <2>3, <2>5
      <3> QED BY <3>1, <3>2, <3>3
    <2> QED BY <2>1, <2>2, <2>4, <2>5, UpSteps
  <1> QED BY <1>3, <1>4 DEF Gone

LEMMA TornGate ==
  ASSUME TypeOK, OpenedOnce, OrderedQueues, UpInv, Up, Up', [Next]_vars,
         NEW x \in Side, NEW k \in Key, Parted(x, k)
  PROVE  Parted(x, k)'
  BY GoneGate, PeerSide, MirrorKey DEF Parted

-----------------------------------------------------------------------------
(* TornInv is kept by the steps that move no drop.                          *)

\* A queue keeps its signals.
SameSignals(q, r) == \A f : Signal(f) => (Queued(r, f) <=> Queued(q, f))
SignalsStill ==
  \A x \in Side : /\ SameSignals(wq[x], wq'[x]) /\ SameSignals(uq[x], uq'[x])
                  /\ SameSignals(net[x], net'[x])

LEMMA OpenedStill ==
  ASSUME NEW x \in Side, NEW k \in Key, nextId' = nextId,
         Queued(net'[Peer(x)], OpenFrame(k[1])) <=> Queued(net[Peer(x)], OpenFrame(k[1]))
  PROVE  Opened(x, k)' <=> Opened(x, k)
  BY DEF Opened

LEMMA PlainStill ==
  ASSUME SignalsStill, UNCHANGED <<nextId, wired, helper>>, NEW x \in Side, NEW k \in Key
  PROVE  Still(x, k)
  <1>1. Peer(x) \in Side
    BY PeerSide
  <1>2. Opened(x, k)' <=> Opened(x, k)
    BY <1>1, OpenedStill, Signals DEF SignalsStill, SameSignals
  <1>3. (RxAlive(x, k)' <=> RxAlive(x, k)) /\ (TxAlive(x, k)' <=> TxAlive(x, k))
    BY Signals DEF RxAlive, TxAlive, SignalsStill, SameSignals
  <1>4. DropsStill(x, k)
    BY Signals DEF DropsStill, NDropped, SignalsStill, SameSignals
  <1> QED BY <1>2, <1>3, <1>4 DEF Still, MapsStill, Source, Sink

LEMMA SignalsPushW ==
  ASSUME TypeOK, NEW s \in Side, NEW e \in WiredEvent, PushW(s, e), ~Signal(e), NEW x \in Side
  PROVE  SameSignals(wq[x], wq'[x])
  <1>1. CASE wstate[s] = "open"
    <2>1. \A f : Queued(wq'[x], f) <=> Queued(wq[x], f) \/ (x = s /\ f = e)
      BY <1>1, PushWHolds
    <2> QED BY <2>1 DEF SameSignals
  <1>2. CASE wstate[s] # "open"
    BY <1>2 DEF PushW, Pushed, SameSignals
  <1> QED BY <1>1, <1>2

LEMMA SignalsPushU ==
  ASSUME TypeOK, NEW s \in Side, NEW e \in UnwiredEvent, PushU(s, e), ~Signal(e), NEW x \in Side
  PROVE  SameSignals(uq[x], uq'[x])
  <1>1. CASE ustate[s] = "open"
    <2>1. \A f : Queued(uq'[x], f) <=> Queued(uq[x], f) \/ (x = s /\ f = e)
      BY <1>1, PushUHolds
    <2> QED BY <2>1 DEF SameSignals
  <1>2. CASE ustate[s] # "open"
    BY <1>2 DEF PushU, Pushed, SameSignals
  <1> QED BY <1>1, <1>2

LEMMA SignalsPopW ==
  ASSUME TypeOK, NEW s \in Side, wq[s] # <<>>, PopW(s), ~Signal(Head(wq[s])), NEW x \in Side
  PROVE  SameSignals(wq[x], wq'[x])
  <1>1. \A f : Queued(wq[x], f) <=> Queued(wq'[x], f) \/ (x = s /\ f = Head(wq[s]))
    BY PopWHolds
  <1> QED BY <1>1 DEF SameSignals

LEMMA SignalsPopU ==
  ASSUME TypeOK, NEW s \in Side, NEW t, HelperAt(s, t), ~Signal(Head(uq[s])), NEW x \in Side
  PROVE  SameSignals(uq[x], uq'[x])
  <1>1. \A f : Queued(uq[x], f) <=> Queued(uq'[x], f) \/ (x = s /\ f = Head(uq[s]))
    BY PopUHolds
  <1> QED BY <1>1 DEF SameSignals

LEMMA SignalsRead ==
  ASSUME TypeOK, NEW s \in Side, NEW t, Reading(s, t), ~Signal(Head(net[Peer(s)])), NEW x \in Side
  PROVE  SameSignals(net[x], net'[x])
  <1>1. \A f : Queued(net[x], f) <=> Queued(net'[x], f) \/ (x = Peer(s) /\ f = Head(net[Peer(s)]))
    BY ReadHolds
  <1> QED BY <1>1 DEF SameSignals

LEMMA SignalsSend ==
  ASSUME TypeOK, NEW s \in Side, NEW e \in WiringEvent, ~Signal(e),
         net' = [net EXCEPT ![s] = Append(@, e)], NEW x \in Side
  PROVE  SameSignals(net[x], net'[x])
  <1>1. \A f : Queued(net'[x], f) <=> Queued(net[x], f) \/ (x = s /\ f = e)
    BY SendHolds
  <1> QED BY <1>1 DEF SameSignals

LEMMA SignalsSame == ASSUME NEW q PROVE SameSignals(q, q)
  BY DEF SameSignals

\* The steps that touch no stream's registration or drop.
LEMMA PlainWired ==
  ASSUME TypeOK, UpInv, Up, NEW s \in Side, WiredEventDone(s) \/ WiredMessage(s)
  PROVE  SignalsStill /\ UNCHANGED <<nextId, wired, helper, wh, rh>>
  <1> USE DEF helperVars, halfVars
  <1>1. UNCHANGED <<nextId, wired, helper, wh, rh, uq>>
    BY DEF WiredEventDone, WiredMessage
  <1>2. ASSUME NEW x \in Side PROVE SameSignals(wq[x], wq'[x]) /\ SameSignals(net[x], net'[x])
    <2>1. CASE WiredEventDone(s)
      <3>1. /\ wq[s] # <<>> /\ PopW(s) /\ Head(wq[s]).t = "event" /\ Write(s, EventFrame)
            /\ EventFrame \in WiringEvent
        BY <2>1, EventTypes DEF WiredEventDone, WiredAt
      <3>2. ~Signal(Head(wq[s])) /\ ~Signal(EventFrame)
        BY <3>1, Signals DEF Signal
      <3>3. net' = [net EXCEPT ![s] = Append(@, EventFrame)]
        BY <3>1, UpWrites
      <3> QED BY <3>1, <3>2, <3>3, SignalsPopW, SignalsSend
    <2>2. CASE WiredMessage(s)
      <3>1. /\ wq[s] # <<>> /\ PopW(s) /\ ~Signal(Head(wq[s]))
        BY <2>2, MessageWrites DEF WiredAt, Signal
      <3>2. \/ net' = net
            \/ \E j \in Key, n \in Nat \ {0} :
                 /\ Data(j, n) \in WiringEvent
                 /\ net' = [net EXCEPT ![s] = Append(@, Data(j, n))]
        <4>1. PICK j \in Key :
                \/ /\ Head(wbuf[s][j]) \in Nat \ {0}
                   /\ Data(Mirror(j), Head(wbuf[s][j])) \in WiringEvent
                   /\ Write(s, Data(Mirror(j), Head(wbuf[s][j])))
                \/ net' = net
          BY <2>2, MessageWrites
        <4> QED BY <4>1, UpWrites, MirrorKey
      <3>3. SameSignals(net[x], net'[x])
        <4>1. CASE net' = net
          BY <4>1, SignalsSame
        <4>2. ASSUME NEW j \in Key, NEW n \in Nat \ {0}, Data(j, n) \in WiringEvent,
                     net' = [net EXCEPT ![s] = Append(@, Data(j, n))]
              PROVE  SameSignals(net[x], net'[x])
          BY <4>2, SignalsSend, Signals
        <4> QED BY <3>2, <4>1, <4>2
      <3> QED BY <3>1, <3>3, SignalsPopW
    <2> QED BY <2>1, <2>2
  <1> QED BY <1>1, <1>2, SignalsSame DEF SignalsStill

LEMMA PlainReader ==
  ASSUME TypeOK, NEW s \in Side, ReadEvent(s) \/ ReadMessage(s)
  PROVE  SignalsStill /\ UNCHANGED <<nextId, wired, helper, wh, rh>>
  <1> USE DEF wiredVars, helperVars, halfVars
  <1>1. UNCHANGED <<nextId, wired, helper, wh, rh, wq>>
    BY DEF ReadEvent, ReadMessage
  <1>2. ASSUME NEW x \in Side PROVE SameSignals(uq[x], uq'[x]) /\ SameSignals(net[x], net'[x])
    <2>1. CASE ReadEvent(s)
      <3>1. Reading(s, "event") /\ uq' = uq
        BY <2>1 DEF ReadEvent
      <3>2. ~Signal(Head(net[Peer(s)]))
        BY <3>1, HeadNet DEF Signal
      <3> QED BY <3>1, <3>2, SignalsRead, SignalsSame
    <2>2. CASE ReadMessage(s)
      <3>1. Reading(s, "data") /\ PushU(s, Head(net[Peer(s)]))
        BY <2>2 DEF ReadMessage
      <3>2. ~Signal(Head(net[Peer(s)])) /\ Head(net[Peer(s)]) \in UnwiredEvent
        BY <3>1, HeadNet DEF Signal
      <3> QED BY <3>1, <3>2, SignalsRead, SignalsPushU
    <2> QED BY <2>1, <2>2
  <1> QED BY <1>1, <1>2, SignalsSame DEF SignalsStill

LEMMA PlainHelper ==
  ASSUME TypeOK, NEW s \in Side, HelperMessage(s)
  PROVE  SignalsStill /\ UNCHANGED <<nextId, wired, helper, wh, rh>>
  <1>1. UNCHANGED <<nextId, wired, helper, wh, rh, wq, net>> /\ HelperAt(s, "data")
    BY DEF HelperMessage, wiredVars, netVars, halfVars
  <1>2. ~Signal(Head(uq[s]))
    BY <1>1, HeadU DEF Signal
  <1> QED BY <1>1, <1>2, SignalsPopU, SignalsSame DEF SignalsStill

LEMMA PlainApp ==
  ASSUME TypeOK, NEW s \in Side,
         \/ \E n \in 0..MaxChans : Send(s, n)
         \/ \E k \in Key : FlushBegin(s, k) \/ FlushEnd(s, k) \/ PollRead(s, k) \/ PollReadEof(s, k)
  PROVE  SignalsStill /\ UNCHANGED <<nextId, wired, helper, wh, rh>>
  <1>1. UNCHANGED <<nextId, wired, helper, wh, rh, uq, net>>
    BY DEF Send, FlushBegin, FlushEnd, PollRead, PollReadEof, wiredVars, helperVars, netVars,
           halfVars
  <1>2. ASSUME NEW x \in Side PROVE SameSignals(wq[x], wq'[x])
    <2>1. ASSUME NEW n \in 0..MaxChans, Send(s, n) PROVE SameSignals(wq[x], wq'[x])
      <3>1. PushW(s, Event(n)) /\ Event(n) \in WiredEvent /\ ~Signal(Event(n))
        BY <2>1, EventTypes, Signals DEF Send
      <3> QED BY <3>1, SignalsPushW
    <2>2. ASSUME NEW k \in Key, FlushEnd(s, k) PROVE SameSignals(wq[x], wq'[x])
      <3>1. PushW(s, Message(k))
        BY <2>2 DEF FlushEnd, FlushSend, SendEvent
      <3>2. Message(k) \in WiredEvent /\ ~Signal(Message(k))
        BY EventTypes, Signals
      <3> QED BY <3>1, <3>2, SignalsPushW
    <2>3. ASSUME NEW k \in Key, FlushBegin(s, k) \/ PollRead(s, k) \/ PollReadEof(s, k)
          PROVE  SameSignals(wq[x], wq'[x])
      <3>1. wq' = wq
        BY <2>3 DEF FlushBegin, FlushSend, SendData, PollRead, PollReadEof, wiredVars
      <3> QED BY <3>1, SignalsSame
    <2> QED BY <2>1, <2>2, <2>3
  <1> QED BY <1>1, <1>2, SignalsSame DEF SignalsStill

\* The two registrations that a task takes off its queue: the stream was alive already.
LEMMA RegisterStill ==
  ASSUME TypeOK, NEW s \in Side, WiredRegister(s), NEW x \in Side, NEW k \in Key
  PROVE  Still(x, k)
  <1>1. /\ wq[s] # <<>> /\ PopW(s) /\ WiredAt(s, "register")
        /\ wired' = [wired EXCEPT ![s] = @ \cup {Head(wq[s]).k}]
        /\ UNCHANGED <<nextId, helper, uq, net>>
    BY DEF WiredRegister, WiredAt, helperVars, netVars
  <1>2. Head(wq[s]).k \in Key /\ Head(wq[s]) \in WiredEvent /\ Head(wq[s]).t = "register"
    BY <1>1, HeadW
  <1> PICK j \in Key : j = Head(wq[s]).k
    BY <1>2
  <1>3. Head(wq[s]) = Register(j)
    BY <1>2 DEF WiredEvent, None, Register
  <1>4. \A f : Queued(wq[x], f) <=> Queued(wq'[x], f) \/ (x = s /\ f = Register(j))
    BY <1>1, <1>3, PopWHolds
  <1>5. /\ Register(j) # Drop(k, TRUE) /\ Register(j) # Drop(k, FALSE)
        /\ Register(k) = Register(j) => k = j
    BY SignalsDiffer
  <1>6. k \in wired'[x] <=> k \in wired[x] \/ (x = s /\ k = j)
    BY <1>1 DEF TypeOK
  <1>7. RxAlive(x, k)' <=> RxAlive(x, k)
    BY <1>4, <1>5, <1>6 DEF RxAlive
  <1>8. (TxAlive(x, k)' <=> TxAlive(x, k)) /\ (Opened(x, k)' <=> Opened(x, k))
    BY <1>1, OpenedStill DEF TxAlive
  <1>9. DropsStill(x, k)
    BY <1>1, <1>4, <1>5 DEF DropsStill, NDropped
  <1> QED BY <1>7, <1>8, <1>9 DEF Still, MapsStill, Source, Sink

LEMMA HelperRegisterStill ==
  ASSUME TypeOK, NEW s \in Side, HelperRegister(s), NEW x \in Side, NEW k \in Key
  PROVE  Still(x, k)
  <1>1. /\ HelperAt(s, "register")
        /\ helper' = [helper EXCEPT ![s] = @ \cup {Head(uq[s]).k}]
        /\ UNCHANGED <<nextId, wired, wq, net>>
    BY DEF HelperRegister, wiredVars, netVars
  <1>2. Head(uq[s]).k \in Key /\ Head(uq[s]) \in UnwiredEvent /\ Head(uq[s]).t = "register"
    BY <1>1, HeadU
  <1> PICK j \in Key : j = Head(uq[s]).k
    BY <1>2
  <1>3. Head(uq[s]) = Register(j)
    BY <1>2 DEF UnwiredEvent, None, Register
  <1>4. \A f : Queued(uq[x], f) <=> Queued(uq'[x], f) \/ (x = s /\ f = Register(j))
    BY <1>1, <1>3, PopUHolds
  <1>5. /\ Register(j) # Drop(k, TRUE) /\ Register(j) # Drop(k, FALSE)
        /\ Register(k) = Register(j) => k = j
    BY SignalsDiffer
  <1>6. k \in helper'[x] <=> k \in helper[x] \/ (x = s /\ k = j)
    BY <1>1 DEF TypeOK
  <1>7. TxAlive(x, k)' <=> TxAlive(x, k)
    BY <1>4, <1>5, <1>6 DEF TxAlive
  <1>8. (RxAlive(x, k)' <=> RxAlive(x, k)) /\ (Opened(x, k)' <=> Opened(x, k))
    BY <1>1, OpenedStill DEF RxAlive
  <1>9. DropsStill(x, k)
    BY <1>1, <1>4, <1>5 DEF DropsStill, NDropped
  <1> QED BY <1>7, <1>8, <1>9 DEF Still, MapsStill, Source, Sink

\* A stream is opened on one side: it enters both maps of it.
Opens(s, j) ==
  /\ ~Opened(s, j) /\ RxAlive(s, j)' /\ TxAlive(s, j)'
  /\ \A x \in Side, k \in Key :
       /\ DropsStill(x, k)
       /\ x # s \/ k # j => /\ Opened(x, k)' <=> Opened(x, k)
                            /\ RxAlive(x, k)' <=> RxAlive(x, k)
                            /\ TxAlive(x, k)' <=> TxAlive(x, k)

LEMMA OpensStill ==
  ASSUME NEW s \in Side, NEW j \in Key, Opens(s, j), NEW x \in Side, NEW k \in Key
  PROVE  Still(x, k)
  BY DEF Opens, Still, MapsStill, Source, Sink

LEMMA ReadOpensStream ==
  ASSUME TypeOK, OpenedOnce, UpInv, Up, NEW s \in Side, ReadOpen(s)
  PROVE  \E j \in Key : Opens(s, j)
  <1>1. PICK id \in WireId :
          /\ Reading(s, "open") /\ PushW(s, Register(Remote(id))) /\ PushU(s, Register(Remote(id)))
          /\ UNCHANGED <<nextId, helper>>
          /\ Head(net[Peer(s)]) = OpenFrame(id)
          /\ Remote(id) \in Key /\ ~Opened(s, Remote(id))
    BY ReadsId
  <1> PICK j \in Key : j = Remote(id)
    BY <1>1
  <1>2. wired' = wired /\ wstate[s] = "open" /\ ustate[s] = "open"
    BY DEF ReadOpen, UpInv, UpSide
  <1>3. Register(j) \in WiredEvent /\ Register(j) \in UnwiredEvent
    BY EventTypes
  <1>4. ASSUME NEW x \in Side
        PROVE  \A f : /\ Queued(wq'[x], f) <=> Queued(wq[x], f) \/ (x = s /\ f = Register(j))
                      /\ Queued(uq'[x], f) <=> Queued(uq[x], f) \/ (x = s /\ f = Register(j))
    BY <1>1, <1>2, <1>3, PushWHolds, PushUHolds
  <1>5. ASSUME NEW x \in Side
        PROVE  \A f : Queued(net[x], f) <=> Queued(net'[x], f) \/ (x = Peer(s) /\ f = OpenFrame(id))
    BY <1>1, ReadHolds
  <1>6. RxAlive(s, j)' /\ TxAlive(s, j)'
    BY <1>4 DEF RxAlive, TxAlive
  <1>7. ASSUME NEW x \in Side, NEW k \in Key PROVE DropsStill(x, k)
    <2>1. /\ Register(j) # Drop(k, TRUE) /\ Register(j) # Drop(k, FALSE)
          /\ DropFrame(Mirror(k)) # OpenFrame(id)
      BY SignalsDiffer
    <2> QED BY <1>4, <1>5, <2>1 DEF DropsStill, NDropped
  <1>8. ASSUME NEW x \in Side, NEW k \in Key, x # s \/ k # j
        PROVE  /\ Opened(x, k)' <=> Opened(x, k)
               /\ RxAlive(x, k)' <=> RxAlive(x, k)
               /\ TxAlive(x, k)' <=> TxAlive(x, k)
    <2>1. Register(k) = Register(j) => k = j
      BY SignalsDiffer
    <2>2. (RxAlive(x, k)' <=> RxAlive(x, k)) /\ (TxAlive(x, k)' <=> TxAlive(x, k))
      BY <1>1, <1>2, <1>4, <1>8, <2>1 DEF RxAlive, TxAlive
    <2>3. CASE k[2]
      BY <1>1, <2>2, <2>3 DEF Opened
    <2>4. CASE ~k[2]
      <3>1. Peer(x) \in Side /\ Peer(Peer(x)) = x /\ Peer(Peer(s)) = s
        BY PeerSide
      <3>2. k = Remote(k[1])
        BY <2>4, MirrorKey
      <3>3. OpenFrame(k[1]) = OpenFrame(id) => k[1] = id
        BY Kinds2
      <3>4. ~(Peer(x) = Peer(s) /\ OpenFrame(k[1]) = OpenFrame(id))
        BY <1>8, <3>1, <3>2, <3>3
      <3>5. Queued(net'[Peer(x)], OpenFrame(k[1])) <=> Queued(net[Peer(x)], OpenFrame(k[1]))
        BY <1>5, <3>1, <3>4
      <3> QED BY <1>1, <2>2, <3>5, OpenedStill
    <2> QED BY <2>2, <2>3, <2>4
  <1> QED BY <1>1, <1>6, <1>7, <1>8 DEF Opens

\* The first entry of a queue is replaced.
LEMMA ReplacedQueued ==
  ASSUME NEW S, NEW q \in Seq(S), q # <<>>, NEW a, NEW f, f # a, f # Head(q)
  PROVE  Queued([q EXCEPT ![1] = a], f) <=> Queued(q, f)
  <1> DEFINE r == [q EXCEPT ![1] = a]
  <1>1. /\ DOMAIN r = DOMAIN q /\ r[1] = a /\ q[1] # f
        /\ \A i \in DOMAIN q : i # 1 => r[i] = q[i]
    OBVIOUS
  <1> HIDE DEF r
  <1>2. Queued(r, f) <=> Queued(q, f)
    BY <1>1 DEF Queued
  <1> QED BY <1>2 DEF r

LEMMA ConnectOpensStream ==
  ASSUME TypeOK, OpenedOnce, UpInv, Up, NEW s \in Side, WiredConnect(s)
  PROVE  \E j \in Key : Opens(s, j)
  <1>1. nextId[s] + 1 \in WireId /\ Local(nextId[s] + 1) \in Key
    BY NextIdType DEF WiredConnect
  <1> PICK id \in WireId : id = nextId[s] + 1
    BY <1>1
  <1> PICK j \in Key : j = Local(id)
    BY <1>1
  <1>2. /\ WiredAt(s, "event") /\ nextId' = [nextId EXCEPT ![s] = id]
        /\ wired' = [wired EXCEPT ![s] = @ \cup {j}] /\ PushU(s, Register(j))
        /\ wq' = [wq EXCEPT ![s][1].chans = @ - 1] /\ helper' = helper
    BY DEF WiredConnect, Connected
  <1>3. net' = [net EXCEPT ![s] = Append(@, OpenFrame(id))]
    BY UpWrites DEF WiredConnect
  <1>4. Register(j) \in UnwiredEvent /\ OpenFrame(id) \in WiringEvent /\ ustate[s] = "open"
    BY EventTypes DEF UpInv, UpSide
  <1>5. ASSUME NEW x \in Side, NEW f, f.t # "event"
        PROVE  Queued(wq'[x], f) <=> Queued(wq[x], f)
    <2>1. wq[s] \in Seq(WiredEvent) /\ wq[s] # <<>> /\ wq \in [Side -> Seq(WiredEvent)]
      BY <1>2, HeadW DEF TypeOK
    <2>2. Head(wq[s]) = wq[s][1] /\ wq[s][1] \in [t : {"event"}, chans : 0..MaxChans]
      BY <1>2, HeadW DEF WiredEvent, None
    <2> DEFINE a == [wq[s][1] EXCEPT !.chans = @ - 1]
    <2>3. a.t = "event" /\ Head(wq[s]).t = "event"
      BY <2>2
    <2>4. wq'[x] = IF x = s THEN [wq[s] EXCEPT ![1] = a] ELSE wq[x]
      BY <1>2, <2>1
    <2> HIDE DEF a
    <2>5. f # a /\ f # Head(wq[s])
      BY <1>5, <2>3
    <2>6. Queued([wq[s] EXCEPT ![1] = a], f) <=> Queued(wq[s], f)
      BY <2>1, <2>5, ReplacedQueued
    <2> QED BY <2>4, <2>6
  <1>6. ASSUME NEW x \in Side
        PROVE  \A f : /\ Queued(uq'[x], f) <=> Queued(uq[x], f) \/ (x = s /\ f = Register(j))
                      /\ Queued(net'[x], f) <=> Queued(net[x], f) \/ (x = s /\ f = OpenFrame(id))
    BY <1>2, <1>3, <1>4, PushUHolds, SendHolds
  <1>7. wired \in [Side -> SUBSET Key] /\ nextId \in [Side -> 0..MaxStreams]
    BY DEF TypeOK
  <1>8. j[1] = id /\ j[2] = TRUE /\ ~(id <= nextId[s]) /\ nextId[s] \in Nat /\ id \in Nat
    BY <1>1, <1>7 DEF Local, WireId
  <1>9. ~Opened(s, j) /\ RxAlive(s, j)' /\ TxAlive(s, j)'
    BY <1>2, <1>6, <1>7, <1>8 DEF Opened, RxAlive, TxAlive
  <1>10. ASSUME NEW x \in Side, NEW k \in Key PROVE DropsStill(x, k)
    <2>1. /\ Register(j) # Drop(k, TRUE) /\ Register(j) # Drop(k, FALSE)
          /\ DropFrame(Mirror(k)) # OpenFrame(id)
      BY SignalsDiffer
    <2>2. Drop(k, TRUE).t = "drop" /\ Drop(k, FALSE).t = "drop"
      BY DEF Drop
    <2>3. /\ Queued(wq'[x], Drop(k, TRUE)) <=> Queued(wq[x], Drop(k, TRUE))
          /\ Queued(wq'[x], Drop(k, FALSE)) <=> Queued(wq[x], Drop(k, FALSE))
      BY <1>5, <2>2
    <2> QED BY <1>6, <2>1, <2>3 DEF DropsStill, NDropped
  <1>11. ASSUME NEW x \in Side, NEW k \in Key, x # s \/ k # j
         PROVE  /\ Opened(x, k)' <=> Opened(x, k)
                /\ RxAlive(x, k)' <=> RxAlive(x, k)
                /\ TxAlive(x, k)' <=> TxAlive(x, k)
    <2>1. (Register(k) = Register(j) => k = j) /\ Register(k).t # "event"
      BY SignalsDiffer DEF Register
    <2>2. k \in wired'[x] <=> k \in wired[x]
      BY <1>2, <1>7, <1>11
    <2>3. Queued(wq'[x], Register(k)) <=> Queued(wq[x], Register(k))
      BY <1>5, <2>1
    <2>4. (RxAlive(x, k)' <=> RxAlive(x, k)) /\ (TxAlive(x, k)' <=> TxAlive(x, k))
      BY <1>2, <1>6, <1>11, <2>1, <2>2, <2>3 DEF RxAlive, TxAlive
    <2>5. k[1] \in Nat /\ (k[2] => k = Local(k[1]))
      BY MirrorKey
    <2>6. \A y \in Side : nextId'[y] = IF y = s THEN id ELSE nextId[y]
      BY <1>2, <1>7
    <2>7. CASE k[2]
      <3>1. x # s \/ k[1] # id
        BY <1>11, <2>5, <2>7
      <3> QED BY <1>8, <2>4, <2>5, <2>6, <2>7, <3>1 DEF Opened
    <2>8. CASE ~k[2]
      <3>1. Peer(x) \in Side
        BY PeerSide
      <3>2. OpenFrame(k[1]) = OpenFrame(id) => k[1] = id
        BY Kinds2
      <3>3. Queued(net'[Peer(x)], OpenFrame(k[1])) <=>
              Queued(net[Peer(x)], OpenFrame(k[1])) \/ (Peer(x) = s /\ OpenFrame(k[1]) = OpenFrame(id))
        BY <1>6, <3>1
      <3>4. CASE Peer(x) = s /\ k[1] = id
        <4>1. ~Opened(x, k)
          BY <1>8, <2>8, <3>4 DEF Opened
        <4>2. ~Opened(x, k)'
          BY <2>8, <3>3, <3>4 DEF Opened
        <4> QED BY <2>4, <4>1, <4>2
      <3>5. CASE ~(Peer(x) = s /\ k[1] = id)
        <4>1. k[1] <= nextId'[Peer(x)] <=> k[1] <= nextId[Peer(x)]
          BY <1>8, <2>5, <2>6, <3>1, <3>5
        <4>2. Queued(net'[Peer(x)], OpenFrame(k[1])) <=> Queued(net[Peer(x)], OpenFrame(k[1]))
          BY <3>2, <3>3, <3>5
        <4> QED BY <2>4, <2>8, <4>1, <4>2 DEF Opened
      <3> QED BY <3>4, <3>5
    <2> QED BY <2>4, <2>7, <2>8
  <1> QED BY <1>9, <1>10, <1>11 DEF Opens

-----------------------------------------------------------------------------
(* TornInv is kept by the steps that move a drop of one stream.             *)

\* A step changes the drops and maps of stream j of side s alone.
Moves(s, j) ==
  \A x \in Side, k \in Key :
    (x # s \/ k # j) /\ (x # Peer(s) \/ k # Mirror(j)) => Still(x, k)

LEMMA TornMove ==
  ASSUME NEW s \in Side, NEW j \in Key, Moves(s, j),
         \A x \in Side, k \in Key : TornKey(x, k) /\ (Parted(x, k) => Parted(x, k)'),
         TornKey(s, j)', TornKey(Peer(s), Mirror(j))',
         NEW x \in Side, NEW k \in Key
  PROVE  TornKey(x, k)'
  <1>1. /\ Peer(x) \in Side /\ Peer(Peer(x)) = x /\ Peer(Peer(s)) = s
        /\ Mirror(k) \in Key /\ Mirror(Mirror(k)) = k /\ Mirror(Mirror(j)) = j
    BY PeerSide, MirrorKey
  <1>2. CASE (x = s /\ k = j) \/ (x = Peer(s) /\ k = Mirror(j))
    BY <1>2
  <1>3. CASE ~(x = s /\ k = j) /\ ~(x = Peer(s) /\ k = Mirror(j))
    <2>1. Still(x, k)
      BY <1>3 DEF Moves
    <2>2. ~(Peer(x) = s /\ Mirror(k) = j) /\ ~(Peer(x) = Peer(s) /\ Mirror(k) = Mirror(j))
      BY <1>1, <1>3
    <2>3. Still(Peer(x), Mirror(k))
      BY <1>1, <2>2 DEF Moves
    <2> QED BY <2>1, <2>3, TornStill
  <1> QED BY <1>2, <1>3

\* A half of the stream is closed or dropped.
LEMMA HalfTorn ==
  ASSUME TypeOK, UpInv, Up, NEW s \in Side, NEW j \in Key,
         ShutWrite(s, j) \/ DropWrite(s, j) \/ DropRead(s, j),
         TornKey(s, j), TornKey(Peer(s), Mirror(j))
  PROVE  Moves(s, j) /\ TornKey(s, j)' /\ TornKey(Peer(s), Mirror(j))'
  <1>1. /\ PushW(s, Drop(j, TRUE)) /\ Drop(j, TRUE) \in WiredEvent /\ wstate[s] = "open"
        /\ UNCHANGED <<nextId, wired, helper, uq, net>>
    BY EventTypes DEF ShutWrite, DropWrite, DropRead, helperVars, netVars, UpInv, UpSide
  <1>2. ASSUME NEW x \in Side
        PROVE  \A f : Queued(wq'[x], f) <=> Queued(wq[x], f) \/ (x = s /\ f = Drop(j, TRUE))
    BY <1>1, PushWHolds
  <1>3. Gone(s, j)'
    <2>1. /\ wh \in [Side -> [Key -> {"none", "open", "shut", "dropped"}]]
          /\ rh \in [Side -> [Key -> {"none", "open", "dropped"}]]
      BY DEF TypeOK
    <2>2. CASE ShutWrite(s, j)
      <3>1. wh'[s][j] = "shut"
        BY <2>1, <2>2 DEF ShutWrite
      <3> QED BY <3>1 DEF Gone
    <2>3. CASE DropWrite(s, j)
      <3>1. wh'[s][j] = "dropped"
        BY <2>1, <2>3 DEF DropWrite
      <3> QED BY <3>1 DEF Gone
    <2>4. CASE DropRead(s, j)
      <3>1. rh'[s][j] = "dropped"
        BY <2>1, <2>4 DEF DropRead
      <3> QED BY <3>1 DEF Gone
    <2> QED BY <2>2, <2>3, <2>4
  <1>4. Parted(s, j)' /\ Parted(Peer(s), Mirror(j))'
    BY <1>3, PeerSide, MirrorKey DEF Parted
  <1>5. ASSUME NEW x \in Side, NEW k \in Key
        PROVE  /\ MapsStill(x, k)
               /\ Queued(wq'[x], Drop(k, FALSE)) <=> Queued(wq[x], Drop(k, FALSE))
               /\ Queued(wq'[x], Drop(k, TRUE)) <=>
                    Queued(wq[x], Drop(k, TRUE)) \/ (x = s /\ k = j)
    <2>1. /\ Register(k) # Drop(j, TRUE) /\ Drop(j, TRUE) # Drop(k, FALSE)
          /\ Drop(k, TRUE) = Drop(j, TRUE) => k = j
      BY SignalsDiffer
    <2>2. RxAlive(x, k)' <=> RxAlive(x, k)
      BY <1>1, <1>2, <2>1 DEF RxAlive
    <2>3. (TxAlive(x, k)' <=> TxAlive(x, k)) /\ (Opened(x, k)' <=> Opened(x, k))
      BY <1>1, OpenedStill DEF TxAlive
    <2> QED BY <1>2, <2>1, <2>2, <2>3 DEF MapsStill, Source, Sink
  <1>6. ASSUME NEW x \in Side, NEW k \in Key, x # s \/ k # j PROVE Still(x, k)
    BY <1>1, <1>5, <1>6 DEF Still, DropsStill, NDropped
  <1>7. Peer(s) \in Side /\ Peer(s) # s /\ Mirror(j) \in Key /\ Peer(Peer(s)) = s
        /\ Mirror(Mirror(j)) = j
    BY PeerSide, MirrorKey
  <1>8. Still(Peer(s), Mirror(j))
    BY <1>6, <1>7
  <1>9. /\ WDropped(s, j)' /\ UNCHANGED <<uq, net>> /\ MapsStill(s, j)
        /\ Queued(wq'[s], Drop(j, FALSE)) <=> Queued(wq[s], Drop(j, FALSE))
    BY <1>1, <1>2, <1>5 DEF WDropped
  <1>10. TornKey(s, j)'
    BY <1>4, <1>8, <1>9 DEF TornKey, Still, MapsStill, DropsStill, UDropped, NDropped
  <1>11. TornKey(Peer(s), Mirror(j))'
    BY <1>4, <1>7, <1>8, <1>9
       DEF TornKey, Still, MapsStill, DropsStill, UDropped, WDropped, NDropped
  <1> QED BY <1>6, <1>10, <1>11 DEF Moves

\* The reader passes a drop to the helper.
LEMMA ReadTorn ==
  ASSUME TypeOK, OpenedOnce, OrderedQueues, UpInv, Up, [Next]_vars, Up', NEW s \in Side,
         ReadDrop(s), TornInv
  PROVE  \E j \in Key : Moves(s, j) /\ TornKey(s, j)' /\ TornKey(Peer(s), Mirror(j))'
  <1>1. /\ Reading(s, "drop") /\ UNCHANGED <<nextId, wired, helper, wq>> /\ ustate[s] = "open"
        /\ PushU(s, Drop(Head(net[Peer(s)]).k, TRUE))
    BY DEF ReadDrop, wiredVars, UpInv, UpSide
  <1>2. /\ Head(net[Peer(s)]).k \in Key /\ Head(net[Peer(s)]) \in WiringEvent
        /\ Head(net[Peer(s)]).t = "drop" /\ net[Peer(s)] # <<>>
    BY <1>1, HeadNet
  <1> PICK j \in Key : j = Head(net[Peer(s)]).k
    BY <1>2
  <1>3. Head(net[Peer(s)]) = DropFrame(j)
    BY <1>2 DEF WiringEvent, EventFrame, DropFrame
  <1>4. PushU(s, Drop(j, TRUE)) /\ Drop(j, TRUE) \in UnwiredEvent
    BY <1>1, EventTypes
  <1>5. ASSUME NEW x \in Side
        PROVE  \A f : Queued(uq'[x], f) <=> Queued(uq[x], f) \/ (x = s /\ f = Drop(j, TRUE))
    BY <1>1, <1>4, PushUHolds
  <1>6. ASSUME NEW x \in Side
        PROVE  \A f : Queued(net[x], f) <=> Queued(net'[x], f) \/ (x = Peer(s) /\ f = DropFrame(j))
    BY <1>1, <1>3, ReadHolds
  <1>7. /\ Peer(s) \in Side /\ Peer(s) # s /\ Mirror(j) \in Key /\ Peer(Peer(s)) = s
        /\ Mirror(Mirror(j)) = j
    BY PeerSide, MirrorKey
  <1>8. ASSUME NEW x \in Side, NEW k \in Key
        PROVE  /\ MapsStill(x, k)
               /\ Queued(uq'[x], Drop(k, FALSE)) <=> Queued(uq[x], Drop(k, FALSE))
               /\ Queued(uq'[x], Drop(k, TRUE)) <=>
                    Queued(uq[x], Drop(k, TRUE)) \/ (x = s /\ k = j)
               /\ NDropped(x, k) <=> NDropped(x, k)' \/ (x = Peer(s) /\ k = Mirror(j))
    <2>1. /\ Register(k) # Drop(j, TRUE) /\ Drop(j, TRUE) # Drop(k, FALSE)
          /\ Drop(k, TRUE) = Drop(j, TRUE) => k = j
          /\ DropFrame(j) # OpenFrame(k[1]) /\ (DropFrame(Mirror(k)) = DropFrame(j) => Mirror(k) = j)
      BY SignalsDiffer
    <2>2. Mirror(k) = j <=> k = Mirror(j)
      BY MirrorKey
    <2>3. TxAlive(x, k)' <=> TxAlive(x, k)
      BY <1>1, <1>5, <2>1 DEF TxAlive
    <2>4. Opened(x, k)' <=> Opened(x, k)
      BY <1>1, <1>6, <2>1, OpenedStill, PeerSide
    <2>5. RxAlive(x, k)' <=> RxAlive(x, k)
      BY <1>1 DEF RxAlive
    <2>6. NDropped(x, k) <=> NDropped(x, k)' \/ (x = Peer(s) /\ k = Mirror(j))
      BY <1>6, <2>1, <2>2 DEF NDropped
    <2> QED BY <1>5, <2>1, <2>3, <2>4, <2>5, <2>6 DEF MapsStill, Source, Sink
  <1>9. Moves(s, j)
    BY <1>1, <1>8 DEF Moves, Still, DropsStill
  <1>10. NDropped(Peer(s), Mirror(j))
    BY <1>7, <1>8
  <1>11. TornKey(s, j) /\ TornKey(Peer(s), Mirror(j))
    BY <1>7 DEF TornInv
  <1>12. Parted(Peer(s), Mirror(j)) /\ Parted(s, j)
    BY <1>7, <1>10, <1>11, TornMirror DEF TornKey
  <1>13. Parted(Peer(s), Mirror(j))' /\ Parted(s, j)'
    BY <1>7, <1>12, TornGate
  <1>14. /\ MapsStill(s, j) /\ MapsStill(Peer(s), Mirror(j)) /\ Queued(uq'[s], Drop(j, TRUE))
         /\ Queued(uq'[s], Drop(j, FALSE)) <=> Queued(uq[s], Drop(j, FALSE))
         /\ NDropped(s, j) <=> NDropped(s, j)'
         /\ Queued(uq'[Peer(s)], Drop(Mirror(j), FALSE)) <=> Queued(uq[Peer(s)], Drop(Mirror(j), FALSE))
         /\ Queued(uq'[Peer(s)], Drop(Mirror(j), TRUE)) <=> Queued(uq[Peer(s)], Drop(Mirror(j), TRUE))
    BY <1>7, <1>8
  <1>15. TornKey(s, j)'
    BY <1>1, <1>10, <1>11, <1>13, <1>14 DEF TornKey, MapsStill, WDropped, UDropped
  <1>16. TornKey(Peer(s), Mirror(j))'
    BY <1>1, <1>7, <1>11, <1>13, <1>14 DEF TornKey, MapsStill, WDropped, UDropped
  <1> QED BY <1>9, <1>15, <1>16

\* The task that takes a drop off its queue has the stream's registration behind it.
LEMMA DropBeforeNone ==
  ASSUME NEW S, NEW q \in Seq(S), q # <<>>, NEW k, NEW e, Leads(q, e, k),
         About(Head(q), k), Head(q) # e
  PROVE  ~Queued(q, e)
  <1>1. ~Queued(Tail(q), e)
    BY CalmTail
  <1> QED BY <1>1, HeadQueued

\* The helper lets go of the stream.
LEMMA HelperTorn ==
  ASSUME TypeOK, OpenedOnce, OrderedQueues, UpInv, Up, [Next]_vars, Up', NEW s \in Side,
         HelperDrop(s), TornInv
  PROVE  \E j \in Key : Moves(s, j) /\ TornKey(s, j)' /\ TornKey(Peer(s), Mirror(j))'
  <1>1. /\ HelperAt(s, "drop") /\ UNCHANGED <<nextId, wired, net>> /\ wstate[s] = "open"
        /\ helper' = [helper EXCEPT ![s] = @ \ {Head(uq[s]).k}]
        /\ IF Head(uq[s]).k \in helper[s] /\ Head(uq[s]).broadcast
           THEN PushW(s, Drop(Head(uq[s]).k, FALSE)) ELSE wq' = wq
    BY DEF HelperDrop, netVars, UpInv, UpSide
  <1>2. /\ uq[s] # <<>> /\ Head(uq[s]).k \in Key /\ Head(uq[s]) \in UnwiredEvent
        /\ Head(uq[s]).t = "drop" /\ Head(uq[s]).broadcast \in BOOLEAN
        /\ uq[s] \in Seq(UnwiredEvent)
    BY <1>1, HeadU DEF TypeOK
  <1> PICK j \in Key : j = Head(uq[s]).k
    BY <1>2
  <1> PICK h : h = Head(uq[s])
    OBVIOUS
  <1>3. h = Drop(j, TRUE) \/ h = Drop(j, FALSE)
    <2>1. h \in [t : {"drop"}, k : Key, broadcast : BOOLEAN]
      BY <1>2 DEF UnwiredEvent, None
    <2>2. CASE h.broadcast = TRUE
      BY <2>1, <2>2 DEF Drop
    <2>3. CASE h.broadcast = FALSE
      BY <2>1, <2>3 DEF Drop
    <2> QED BY <2>1, <2>2, <2>3
  <1>4. h.broadcast <=> h = Drop(j, TRUE)
    <2>1. Drop(j, TRUE).broadcast = TRUE /\ Drop(j, FALSE).broadcast = FALSE
      BY DEF Drop
    <2> QED BY <1>3, <2>1
  <1>5. ASSUME NEW x \in Side
        PROVE  \A f : Queued(uq[x], f) <=> Queued(uq'[x], f) \/ (x = s /\ f = h)
    BY <1>1, PopUHolds
  <1>6. /\ Peer(s) \in Side /\ Peer(s) # s /\ Mirror(j) \in Key /\ Peer(Peer(s)) = s
        /\ Mirror(Mirror(j)) = j
    BY PeerSide, MirrorKey
  <1>7. About(h, j) /\ ~Queued(uq[s], Register(j)) /\ Opened(s, j)
    <2>1. About(h, j) /\ h # Register(j)
      <3>1. /\ Drop(j, TRUE).t = "drop" /\ Drop(j, TRUE).k = j
            /\ Drop(j, FALSE).t = "drop" /\ Drop(j, FALSE).k = j /\ Register(j).t = "register"
        BY DEF Drop, Register
      <3> QED BY <1>3, <3>1 DEF About
    <2>2. Leads(uq[s], Register(j), j)
      BY DEF OrderedQueues, OrderedKey
    <2>3. Mentions(uq[s], j)
      BY <1>2, <2>1, CalmTail
    <2> QED BY <1>2, <2>1, <2>2, <2>3, DropBeforeNone, KnownOpened
  <1>8. /\ ~TxAlive(s, j)' /\ Opened(s, j)'
        /\ TxAlive(s, j) <=> j \in helper[s]
    <2>1. ~Queued(uq'[s], Register(j)) /\ j \notin helper'[s]
      BY <1>1, <1>5, <1>7 DEF TypeOK
    <2>2. Opened(s, j)'
      BY <1>1, <1>7, OpenedStill
    <2> QED BY <1>7, <2>1, <2>2 DEF TxAlive
  <1>9. \/ j \in helper[s] /\ h = Drop(j, TRUE) /\ PushW(s, Drop(j, FALSE))
        \/ ~(j \in helper[s] /\ h = Drop(j, TRUE)) /\ wq' = wq
    BY <1>1, <1>4
  <1>10. ASSUME NEW x \in Side, NEW f
         PROVE  Queued(wq'[x], f) <=>
                  Queued(wq[x], f) \/ (x = s /\ f = Drop(j, FALSE) /\ j \in helper[s] /\ h = Drop(j, TRUE))
    <2>1. Drop(j, FALSE) \in WiredEvent
      BY EventTypes
    <2>2. CASE j \in helper[s] /\ h = Drop(j, TRUE) /\ PushW(s, Drop(j, FALSE))
      <3>1. Queued(wq'[x], f) <=> Queued(wq[x], f) \/ (x = s /\ f = Drop(j, FALSE))
        BY <1>1, <2>1, <2>2, PushWHolds
      <3> QED BY <2>2, <3>1
    <2>3. CASE ~(j \in helper[s] /\ h = Drop(j, TRUE)) /\ wq' = wq
      BY <2>3
    <2> QED BY <1>9, <2>2, <2>3
  <1>11. ASSUME NEW x \in Side, NEW k \in Key
         PROVE  /\ Queued(wq'[x], Drop(k, TRUE)) <=> Queued(wq[x], Drop(k, TRUE))
                /\ Queued(wq[x], Drop(k, FALSE)) => Queued(wq'[x], Drop(k, FALSE))
                /\ x # s \/ k # j => DropsStill(x, k) /\ MapsStill(x, k)
                /\ RxAlive(x, k)' <=> RxAlive(x, k)
                /\ Opened(x, k)' <=> Opened(x, k)
    <2>1. /\ Register(k) # Drop(j, FALSE) /\ Register(k) # Drop(j, TRUE)
          /\ Drop(j, TRUE) # Drop(k, FALSE) /\ Drop(k, TRUE) # Drop(j, FALSE)
          /\ Drop(k, TRUE) = Drop(j, TRUE) => k = j
          /\ Drop(k, FALSE) = Drop(j, FALSE) => k = j
      BY SignalsDiffer
    <2>2. RxAlive(x, k)' <=> RxAlive(x, k)
      BY <1>1, <1>10, <2>1 DEF RxAlive
    <2>3. Opened(x, k)' <=> Opened(x, k)
      BY <1>1, OpenedStill
    <2>4. ASSUME x # s \/ k # j PROVE DropsStill(x, k) /\ MapsStill(x, k)
      <3>1. ~(x = s /\ h = Drop(k, TRUE)) /\ ~(x = s /\ h = Drop(k, FALSE)) /\ h # Register(k)
        BY <1>3, <2>1, <2>4
      <3>2. k \in helper'[x] <=> k \in helper[x]
        BY <1>1, <2>4 DEF TypeOK
      <3>3. TxAlive(x, k)' <=> TxAlive(x, k)
        BY <1>5, <3>1, <3>2 DEF TxAlive
      <3>4. DropsStill(x, k)
        BY <1>1, <1>5, <1>10, <2>1, <2>4, <3>1 DEF DropsStill, NDropped
      <3> QED BY <2>2, <2>3, <3>3, <3>4 DEF MapsStill, Source, Sink
    <2> QED BY <1>10, <2>1, <2>2, <2>3, <2>4
  <1>12. Moves(s, j)
    BY <1>11 DEF Moves, Still
  <1>13. TornKey(s, j) /\ TornKey(Peer(s), Mirror(j))
    BY <1>6 DEF TornInv
  <1>14. Queued(uq[s], h)
    BY <1>5
  <1>15. Parted(s, j)' /\ Parted(Peer(s), Mirror(j))'
    <2>1. UDropped(s, j)
      BY <1>3, <1>14 DEF UDropped
    <2>2. Parted(s, j) /\ Parted(Peer(s), Mirror(j))
      BY <1>13, <2>1, TornMirror DEF TornKey
    <2> QED BY <1>6, <2>2, TornGate
  <1>16. /\ ~Sink(s, j)' /\ (Source(s, j)' <=> Source(s, j))
         /\ DropsStill(Peer(s), Mirror(j)) /\ MapsStill(Peer(s), Mirror(j))
         /\ NDropped(s, j)' <=> NDropped(s, j)
    BY <1>1, <1>6, <1>8, <1>11 DEF Sink, Source, NDropped
  <1>17. Source(s, j) => WDropped(s, j)'
    <2>1. CASE j \in helper[s] /\ h = Drop(j, TRUE)
      BY <1>10, <2>1 DEF WDropped
    <2>2. CASE h = Drop(j, FALSE)
      BY <1>13, <1>14, <2>2 DEF TornKey
    <2>3. CASE j \notin helper[s]
      <3>1. ~Sink(s, j)
        BY <1>7, <1>8, <2>3 DEF Sink
      <3>2. Source(s, j) => WDropped(s, j)
        BY <1>13, <3>1 DEF TornKey
      <3> QED BY <1>11, <3>2 DEF WDropped
    <2> QED BY <1>3, <2>1, <2>2, <2>3
  <1>18. Queued(uq'[s], Drop(j, FALSE)) => ~Source(s, j)
    BY <1>5, <1>13 DEF TornKey
  <1>19. Queued(wq'[s], Drop(j, FALSE)) \/ Queued(uq'[s], Drop(j, TRUE)) => ~Source(Peer(s), Mirror(j))
    <2>1. Queued(uq'[s], Drop(j, TRUE)) => Queued(uq[s], Drop(j, TRUE))
      BY <1>5
    <2>2. Queued(wq'[s], Drop(j, FALSE)) => Queued(wq[s], Drop(j, FALSE)) \/ h = Drop(j, TRUE)
      BY <1>10
    <2> QED BY <1>13, <1>14, <2>1, <2>2 DEF TornKey
  <1>20. TornKey(s, j)'
    BY <1>13, <1>15, <1>16, <1>17, <1>18, <1>19 DEF TornKey, DropsStill, MapsStill
  <1>21. TornKey(Peer(s), Mirror(j))'
    BY <1>6, <1>13, <1>15, <1>16 DEF TornKey, DropsStill, MapsStill, WDropped, UDropped
  <1> QED BY <1>12, <1>20, <1>21

\* The wired task lets go of the stream.
LEMMA WiredTorn ==
  ASSUME TypeOK, OpenedOnce, OrderedQueues, UpInv, Up, [Next]_vars, Up', NEW s \in Side,
         WiredDrop(s), TornInv
  PROVE  \E j \in Key : Moves(s, j) /\ TornKey(s, j)' /\ TornKey(Peer(s), Mirror(j))'
  <1>1. /\ WiredAt(s, "drop") /\ PopW(s) /\ UNCHANGED <<nextId, helper>>
        /\ ustate[s] = "open"
    BY DEF WiredDrop, UpInv, UpSide
  <1>2. /\ wq[s] # <<>> /\ Head(wq[s]).k \in Key /\ wq[s] \in Seq(WiredEvent)
        /\ Head(wq[s]) = Drop(Head(wq[s]).k, Head(wq[s]).broadcast)
        /\ Head(wq[s]).broadcast \in BOOLEAN
    BY <1>1, HeadW
  <1> PICK j \in Key : j = Head(wq[s]).k
    BY <1>2
  <1> PICK h : h = Head(wq[s])
    OBVIOUS
  <1>3. h = Drop(j, TRUE) \/ h = Drop(j, FALSE)
    <2>1. CASE h.broadcast = TRUE
      BY <1>2, <2>1
    <2>2. CASE h.broadcast = FALSE
      BY <1>2, <2>2
    <2> QED BY <1>2, <2>1, <2>2
  <1>4. h.broadcast <=> h = Drop(j, TRUE)
    <2>1. Drop(j, TRUE).broadcast = TRUE /\ Drop(j, FALSE).broadcast = FALSE
      BY DEF Drop
    <2> QED BY <1>3, <2>1
  <1>5. ASSUME NEW x \in Side
        PROVE  \A f : Queued(wq[x], f) <=> Queued(wq'[x], f) \/ (x = s /\ f = h)
    BY <1>1, <1>2, PopWHolds
  <1>6. /\ Peer(s) \in Side /\ Peer(s) # s /\ Mirror(j) \in Key /\ Peer(Peer(s)) = s
        /\ Mirror(Mirror(j)) = j
    BY PeerSide, MirrorKey
  <1>7. About(h, j) /\ ~Queued(wq[s], Register(j)) /\ Opened(s, j)
    <2>1. About(h, j) /\ h # Register(j)
      <3>1. /\ Drop(j, TRUE).t = "drop" /\ Drop(j, TRUE).k = j
            /\ Drop(j, FALSE).t = "drop" /\ Drop(j, FALSE).k = j /\ Register(j).t = "register"
        BY DEF Drop, Register
      <3> QED BY <1>3, <3>1 DEF About
    <2>2. Leads(wq[s], Register(j), j)
      BY DEF OrderedQueues, OrderedKey
    <2>3. Mentions(wq[s], j)
      BY <1>2, <2>1, CalmTail
    <2> QED BY <1>2, <2>1, <2>2, <2>3, DropBeforeNone, KnownOpened
  <1>8. RxAlive(s, j) <=> j \in wired[s]
    BY <1>7 DEF RxAlive
  <1>9. TornKey(s, j) /\ TornKey(Peer(s), Mirror(j))
    BY <1>6 DEF TornInv
  <1>10. Queued(wq[s], h)
    BY <1>5
  <1>11. Parted(s, j)' /\ Parted(Peer(s), Mirror(j))'
    <2>1. WDropped(s, j)
      BY <1>3, <1>10 DEF WDropped
    <2>2. Parted(s, j) /\ Parted(Peer(s), Mirror(j))
      BY <1>9, <2>1, TornMirror DEF TornKey
    <2> QED BY <1>6, <2>2, TornGate
  <1>12. ASSUME NEW k \in Key
         PROVE  /\ Register(k) # Drop(j, FALSE) /\ Register(k) # h
                /\ Drop(k, TRUE) # Drop(j, FALSE) /\ (Drop(k, FALSE) = Drop(j, FALSE) => k = j)
                /\ k # j => h # Drop(k, TRUE) /\ h # Drop(k, FALSE)
                /\ DropFrame(Mirror(j)) # OpenFrame(k[1])
                /\ DropFrame(Mirror(k)) = DropFrame(Mirror(j)) => k = j
    <2>1. /\ Register(k) # Drop(j, FALSE) /\ Register(k) # Drop(j, TRUE)
          /\ Drop(k, TRUE) # Drop(j, FALSE) /\ Drop(j, TRUE) # Drop(k, FALSE)
          /\ Drop(k, TRUE) = Drop(j, TRUE) => k = j
          /\ Drop(k, FALSE) = Drop(j, FALSE) => k = j
          /\ DropFrame(Mirror(j)) # OpenFrame(k[1])
          /\ DropFrame(Mirror(k)) = DropFrame(Mirror(j)) => Mirror(k) = Mirror(j)
      BY SignalsDiffer
    <2>2. Mirror(k) = Mirror(j) => k = j
      BY MirrorKey
    <2> QED BY <1>3, <2>1, <2>2
  <1>13. CASE j \notin wired[s]
    <2>1. UNCHANGED <<wired, uq, net>>
      BY <1>13 DEF WiredDrop
    <2>2. ASSUME NEW x \in Side, NEW k \in Key
          PROVE  /\ MapsStill(x, k) /\ (NDropped(x, k)' <=> NDropped(x, k))
                 /\ Queued(wq'[x], Drop(k, TRUE)) => Queued(wq[x], Drop(k, TRUE))
                 /\ Queued(wq'[x], Drop(k, FALSE)) => Queued(wq[x], Drop(k, FALSE))
                 /\ x # s \/ k # j => DropsStill(x, k)
      <3>1. RxAlive(x, k)' <=> RxAlive(x, k)
        BY <1>5, <1>12, <2>1 DEF RxAlive
      <3>2. (TxAlive(x, k)' <=> TxAlive(x, k)) /\ (Opened(x, k)' <=> Opened(x, k))
        BY <1>1, <2>1, OpenedStill DEF TxAlive
      <3>3. NDropped(x, k)' <=> NDropped(x, k)
        BY <2>1 DEF NDropped
      <3>4. x # s \/ k # j => DropsStill(x, k)
        BY <1>5, <1>12, <2>1, <3>3 DEF DropsStill
      <3> QED BY <1>5, <3>1, <3>2, <3>3, <3>4 DEF MapsStill, Source, Sink
    <2>3. Moves(s, j)
      BY <2>2 DEF Moves, Still
    <2>4. ~Source(s, j)
      BY <1>7, <1>8, <1>13 DEF Source
    <2>5. /\ MapsStill(s, j) /\ DropsStill(Peer(s), Mirror(j)) /\ MapsStill(Peer(s), Mirror(j))
          /\ NDropped(s, j)' <=> NDropped(s, j)
          /\ Queued(wq'[s], Drop(j, FALSE)) => Queued(wq[s], Drop(j, FALSE))
      BY <1>6, <2>2
    <2>6. TornKey(s, j)'
      BY <1>9, <1>11, <2>1, <2>4, <2>5 DEF TornKey, MapsStill, DropsStill, UDropped
    <2>7. TornKey(Peer(s), Mirror(j))'
      BY <1>6, <1>9, <1>11, <2>4, <2>5 DEF TornKey, MapsStill, DropsStill, UDropped, WDropped
    <2> QED BY <2>3, <2>6, <2>7
  <1>14. CASE j \in wired[s]
    <2>1. /\ PushU(s, Drop(j, FALSE)) /\ wired' = [wired EXCEPT ![s] = @ \ {j}]
          /\ IF h.broadcast THEN Write(s, DropFrame(Mirror(j))) ELSE net' = net
      BY <1>14 DEF WiredDrop, Dropped
    <2>2. ASSUME NEW x \in Side, NEW f
          PROVE  Queued(uq'[x], f) <=> Queued(uq[x], f) \/ (x = s /\ f = Drop(j, FALSE))
      <3>1. Drop(j, FALSE) \in UnwiredEvent
        BY EventTypes
      <3> QED BY <1>1, <2>1, <3>1, PushUHolds
    <2>3. ASSUME NEW x \in Side, NEW f
          PROVE  Queued(net'[x], f) <=>
                   Queued(net[x], f) \/ (x = s /\ f = DropFrame(Mirror(j)) /\ h.broadcast)
      <3>1. CASE h.broadcast
        <4>1. DropFrame(Mirror(j)) \in WiringEvent
          BY <1>6, EventTypes
        <4>2. net' = [net EXCEPT ![s] = Append(@, DropFrame(Mirror(j)))]
          BY <2>1, <3>1, UpWrites
        <4>3. Queued(net'[x], f) <=> Queued(net[x], f) \/ (x = s /\ f = DropFrame(Mirror(j)))
          BY <4>1, <4>2, SendHolds
        <4> QED BY <3>1, <4>3
      <3>2. CASE ~h.broadcast
        BY <2>1, <3>2
      <3> QED BY <3>1, <3>2
    <2>4. ASSUME NEW x \in Side, NEW k \in Key
          PROVE  /\ Opened(x, k)' <=> Opened(x, k)
                 /\ Sink(x, k)' <=> Sink(x, k)
                 /\ Queued(wq'[x], Drop(k, FALSE)) => Queued(wq[x], Drop(k, FALSE))
                 /\ Queued(uq'[x], Drop(k, TRUE)) <=> Queued(uq[x], Drop(k, TRUE))
                 /\ x # s \/ k # j => Still(x, k)
      <3>1. Opened(x, k)' <=> Opened(x, k)
        BY <1>1, <1>12, <2>3, OpenedStill, PeerSide
      <3>2. TxAlive(x, k)' <=> TxAlive(x, k)
        BY <1>1, <1>12, <2>2 DEF TxAlive
      <3>3. Queued(uq'[x], Drop(k, TRUE)) <=> Queued(uq[x], Drop(k, TRUE))
        BY <1>12, <2>2
      <3>4. ASSUME x # s \/ k # j PROVE Still(x, k)
        <4>1. k \in wired'[x] <=> k \in wired[x]
          BY <2>1, <3>4 DEF TypeOK
        <4>2. RxAlive(x, k)' <=> RxAlive(x, k)
          BY <1>5, <1>12, <4>1 DEF RxAlive
        <4>3. NDropped(x, k)' <=> NDropped(x, k)
          BY <1>12, <2>3, <3>4 DEF NDropped
        <4>4. DropsStill(x, k)
          BY <1>5, <1>12, <2>2, <3>3, <3>4, <4>3 DEF DropsStill
        <4> QED BY <3>1, <3>2, <4>2, <4>4 DEF Still, MapsStill, Source, Sink
      <3> QED BY <1>5, <3>1, <3>2, <3>3, <3>4 DEF Sink
    <2>5. Moves(s, j)
      BY <2>4 DEF Moves
    <2>6. ~Source(s, j)'
      <3>1. ~Queued(wq'[s], Register(j)) /\ j \notin wired'[s]
        BY <1>5, <1>7, <2>1 DEF TypeOK
      <3> QED BY <1>7, <2>4, <3>1 DEF Source, RxAlive
    <2>7. /\ Still(Peer(s), Mirror(j)) /\ (Sink(s, j)' <=> Sink(s, j)) /\ UDropped(s, j)'
          /\ Queued(wq'[s], Drop(j, FALSE)) => Queued(wq[s], Drop(j, FALSE))
          /\ Queued(uq'[s], Drop(j, TRUE)) <=> Queued(uq[s], Drop(j, TRUE))
      BY <1>6, <2>2, <2>4 DEF UDropped
    <2>8. Source(Peer(s), Mirror(j)) => NDropped(s, j)'
      <3>1. CASE h = Drop(j, TRUE)
        BY <1>4, <2>3, <3>1 DEF NDropped
      <3>2. CASE h = Drop(j, FALSE)
        BY <1>9, <1>10, <3>2 DEF TornKey
      <3> QED BY <1>3, <3>1, <3>2
    <2>9. TornKey(s, j)'
      BY <1>9, <1>11, <2>6, <2>7 DEF TornKey, Still, MapsStill, DropsStill
    <2>10. TornKey(Peer(s), Mirror(j))'
      BY <1>6, <1>9, <1>11, <2>6, <2>7, <2>8
         DEF TornKey, Still, MapsStill, DropsStill, UDropped, WDropped
    <2> QED BY <2>5, <2>9, <2>10
  <1> QED BY <1>13, <1>14

-----------------------------------------------------------------------------
(* TornInv holds.                                                           *)

LEMMA TornInit == ASSUME Init PROVE TornInv
  <1> SUFFICES ASSUME NEW s \in Side, NEW k \in Key PROVE TornKey(s, k)
    BY DEF TornInv
  <1>1. ASSUME NEW x \in Side, NEW j \in Key
        PROVE  /\ Source(x, j) /\ Sink(x, j)
               /\ ~WDropped(x, j) /\ ~UDropped(x, j) /\ ~NDropped(x, j)
    <2>1. wq[x] = <<>> /\ uq[x] = <<>> /\ net[x] = <<>>
      BY DEF Init
    <2>2. ~Opened(x, j)
      <3>1. nextId[x] = 0 /\ nextId[Peer(x)] = 0 /\ j[1] \in Nat \ {0}
        BY PeerSide DEF Init, Key, WireId
      <3> QED BY <3>1 DEF Opened
    <2> QED BY <2>1, <2>2 DEF Source, Sink, WDropped, UDropped, NDropped, Queued
  <1>2. Peer(s) \in Side /\ Mirror(k) \in Key
    BY PeerSide, MirrorKey
  <1> QED BY <1>1, <1>2 DEF TornKey, WDropped, UDropped

LEMMA TornNext ==
  ASSUME TypeOK, OpenedOnce, OrderedQueues, UpInv, TornInv, [Next]_vars
  PROVE  TornInv'
  <1> SUFFICES ASSUME Up', NEW x \in Side, NEW k \in Key PROVE TornKey(x, k)'
    BY DEF TornInv
  <1>1. Up
    BY UpGate
  <1>2. \A y \in Side, j \in Key : TornKey(y, j) /\ (Parted(y, j) => Parted(y, j)')
    BY <1>1, TornGate DEF TornInv
  <1>3. ASSUME \A y \in Side, j \in Key : Still(y, j) PROVE TornKey(x, k)'
    BY <1>2, <1>3, TornStill, PeerSide, MirrorKey
  <1>4. ASSUME NEW s \in Side, NEW j \in Key, Moves(s, j),
               TornKey(s, j)', TornKey(Peer(s), Mirror(j))'
        PROVE  TornKey(x, k)'
    BY <1>2, <1>4, TornMove
  <1>5. ASSUME SignalsStill, UNCHANGED <<nextId, wired, helper>> PROVE TornKey(x, k)'
    BY <1>3, <1>5, PlainStill
  <1>6. ASSUME NEW s \in Side, NEW j \in Key, Opens(s, j) PROVE TornKey(x, k)'
    BY <1>3, <1>6, OpensStill
  <1>7. CASE UNCHANGED vars
    <2>1. UNCHANGED <<wq, uq, net, nextId, wired, helper>>
      BY <1>7 DEF vars, wiredVars, helperVars, netVars
    <2> QED BY <1>5, <2>1, SignalsSame DEF SignalsStill
  <1>8. ASSUME NEW s \in Side,
               \/ WiredConnect(s) \/ WiredEventDone(s) \/ WiredRegister(s) \/ WiredMessage(s)
               \/ WiredDrop(s)
        PROVE  TornKey(x, k)'
    <2>1. CASE WiredConnect(s)
      BY <1>1, <1>6, <2>1, ConnectOpensStream
    <2>2. CASE WiredEventDone(s) \/ WiredMessage(s)
      BY <1>1, <1>5, <2>2, PlainWired
    <2>3. CASE WiredRegister(s)
      BY <1>3, <2>3, RegisterStill
    <2>4. CASE WiredDrop(s)
      BY <1>1, <1>4, <2>4, WiredTorn
    <2> QED BY <1>8, <2>1, <2>2, <2>3, <2>4
  <1>9. ASSUME NEW s \in Side, ReadOpen(s) \/ ReadEvent(s) \/ ReadMessage(s) \/ ReadDrop(s)
        PROVE  TornKey(x, k)'
    <2>1. CASE ReadOpen(s)
      BY <1>1, <1>6, <2>1, ReadOpensStream
    <2>2. CASE ReadEvent(s) \/ ReadMessage(s)
      BY <1>5, <2>2, PlainReader
    <2>3. CASE ReadDrop(s)
      BY <1>1, <1>4, <2>3, ReadTorn
    <2> QED BY <1>9, <2>1, <2>2, <2>3
  <1>10. ASSUME NEW s \in Side, HelperMessage(s) \/ HelperRegister(s) \/ HelperDrop(s)
         PROVE  TornKey(x, k)'
    <2>1. CASE HelperMessage(s)
      BY <1>5, <2>1, PlainHelper
    <2>2. CASE HelperRegister(s)
      BY <1>3, <2>2, HelperRegisterStill
    <2>3. CASE HelperDrop(s)
      BY <1>1, <1>4, <2>3, HelperTorn
    <2> QED BY <1>10, <2>1, <2>2, <2>3
  <1>11. ASSUME NEW s \in Side, NEW n \in 0..MaxChans, Send(s, n) PROVE TornKey(x, k)'
    BY <1>5, <1>11, PlainApp
  <1>12. ASSUME NEW s \in Side, NEW j \in Key, HalfStep(s, j) PROVE TornKey(x, k)'
    <2>1. CASE FlushBegin(s, j) \/ FlushEnd(s, j) \/ PollRead(s, j) \/ PollReadEof(s, j)
      BY <1>5, <2>1, PlainApp
    <2>2. CASE ShutWrite(s, j) \/ DropWrite(s, j) \/ DropRead(s, j)
      <3>1. TornKey(s, j) /\ TornKey(Peer(s), Mirror(j))
        BY <1>2, PeerSide, MirrorKey
      <3> QED BY <1>1, <1>4, <2>2, <3>1, HalfTorn
    <2> QED BY <1>12, <2>1, <2>2 DEF HalfStep
  <1> QED BY <1>1, <1>7, <1>8, <1>9, <1>10, <1>11, <1>12, UpSteps

LEMMA TornHolds == Spec => [](UpInv /\ TornInv)
  <1>1. Init => UpInv /\ TornInv
    BY UpInit, TornInit
  <1>2. TypeOK /\ OpenedOnce /\ OrderedQueues /\ UpInv /\ TornInv /\ [Next]_vars
          => (UpInv /\ TornInv)'
    BY UpNext, TornNext
  <1> QED BY <1>1, <1>2, TypeCorrect, StreamsOpenedOnce, QueuesOrdered, PTL DEF Spec

-----------------------------------------------------------------------------
(* What follows for a stream that both ends hold.                           *)

HeldInv ==
  TypeOK /\ OpenedOnce /\ OrderedQueues /\ Announced /\ PathInv /\ UpInv /\ TornInv

LEMMA HeldPath ==
  ASSUME HeldInv, Up, NEW s \in Side, NEW k \in Key,
         Held(s, k), Held(Peer(s), Mirror(k))
  PROVE  /\ Opened(s, k) /\ RxAlive(s, k)
         /\ InOrder(Peer(s), Mirror(k))
         /\ \E b, c \in Len(arr[Peer(s)][Mirror(k)])..flushed[s][k] :
              /\ Carries(uq[Peer(s)], Mirror(k), Len(arr[Peer(s)][Mirror(k)]), b)
              /\ b <= c /\ Carries(net[s], Mirror(k), b, c)
              /\ wbuf[s][k] = [i \in 1..(flushed[s][k] - c) |-> c + i]
  <1> PICK p \in Side : p = Peer(s)
    BY PeerSide
  <1> PICK m \in Key : m = Mirror(k)
    BY MirrorKey
  <1>1. Peer(p) = s /\ Mirror(m) = k
    BY PeerSide, MirrorKey
  <1>2. ~Parted(s, k) /\ ~Parted(p, m)
    BY <1>1 DEF Held, Parted, Gone
  <1>3. Source(s, k) /\ Sink(p, m)
    BY <1>2 DEF HeldInv, TornInv, TornKey
  <1>4. Opened(s, k)
    BY KnownOpened DEF HeldInv, Held
  <1>5. RxAlive(s, k)
    BY <1>3, <1>4 DEF Source
  <1>6. Intake(p, m)
    BY <1>3 DEF Intake, Sink, Held
  <1>7. ustate[p] = "open" /\ ~Down(s)
    BY UpWrites DEF HeldInv, UpInv, UpSide
  <1>8. PathKey(p, m)
    BY DEF HeldInv, PathInv
  <1> PICK b \in Nat, c \in Nat : Path(p, m, b, c)
    BY <1>8 DEF PathKey
  <1>9. Flushed(p, m) = flushed[s][k] /\ InChannel(p, m) = wbuf[s][k]
    BY <1>1 DEF Flushed, InChannel
  <1>10. /\ Len(arr[p][m]) <= b /\ b <= c /\ c <= flushed[s][k]
         /\ Carries(uq[p], m, Len(arr[p][m]), b)
         /\ Carries(net[s], m, b, c)
         /\ wbuf[s][k] = [i \in 1..(flushed[s][k] - c) |-> c + i]
    BY <1>1, <1>3, <1>6, <1>7, <1>9 DEF Path
  <1>11. Len(arr[p][m]) \in Nat /\ flushed[s][k] \in Nat
    BY <1>1, <1>9, PathTypes DEF HeldInv
  <1>12. b \in Len(arr[p][m])..flushed[s][k] /\ c \in Len(arr[p][m])..flushed[s][k]
    BY <1>10, <1>11
  <1> QED BY <1>4, <1>5, <1>8, <1>10, <1>12 DEF PathKey

\* While both ends hold a stream and nothing is torn down, each message flushed into it is
\* in exactly one place, in order, for any number of streams, messages and steps: the wired
\* task and the helper keep their ends of it until a half of it is dropped, poll_flush, the
\* wired task, the reader and the helper pass the messages on one by one.
THEOREM NothingIsLost == Spec => []NothingLostOrReordered
  <1>1. HeldInv => NothingLostOrReordered
    <2> SUFFICES ASSUME HeldInv, Up, NEW s \in Side, NEW k \in Key,
                        Held(s, k), Held(Peer(s), Mirror(k))
                 PROVE  /\ InOrder(Peer(s), Mirror(k))
                        /\ \E b, c \in Len(arr[Peer(s)][Mirror(k)])..flushed[s][k] :
                             /\ Carries(uq[Peer(s)], Mirror(k), Len(arr[Peer(s)][Mirror(k)]), b)
                             /\ b <= c /\ Carries(net[s], Mirror(k), b, c)
                             /\ wbuf[s][k] = [i \in 1..(flushed[s][k] - c) |-> c + i]
      BY DEF NothingLostOrReordered
    <2> QED BY HeldPath
  <1> QED BY <1>1, TypeCorrect, StreamsOpenedOnce, QueuesOrdered, MessagesAnnounced,
             MessagesOnPath, TornHolds, PTL DEF HeldInv

\* When nothing is queued or under way, all that was flushed into such a stream has been
\* delivered: none waits in the writer's channel, since each has its event in the queue.
THEOREM AllDelivered == Spec => []DeliveredWhenQuiet
  <1>1. HeldInv => DeliveredWhenQuiet
    <2> SUFFICES ASSUME HeldInv, Up, Quiet, NEW s \in Side, NEW k \in Key,
                        Held(s, k), Held(Peer(s), Mirror(k))
                 PROVE  Len(arr[Peer(s)][Mirror(k)]) = flushed[s][k]
      BY DEF DeliveredWhenQuiet
    <2> PICK p \in Side : p = Peer(s)
      BY PeerSide
    <2> PICK m \in Key : m = Mirror(k)
      BY MirrorKey
    <2>1. wq[s] = <<>> /\ uq[p] = <<>> /\ net[s] = <<>> /\ ~pend[s][k]
      BY DEF Quiet
    <2> DEFINE a == Len(arr[p][m])
               f == flushed[s][k]
    <2>2. RxAlive(s, k)
      BY HeldPath
    <2>3. PICK b \in a..f, c \in a..f :
            /\ Carries(uq[p], m, a, b) /\ b <= c /\ Carries(net[s], m, b, c)
            /\ wbuf[s][k] = [i \in 1..(f - c) |-> c + i]
      BY HeldPath
    <2>4. a \in Nat /\ f \in Nat
      BY DEF HeldInv, TypeOK
    <2>5. b \in Nat /\ c \in Nat /\ a <= b /\ c <= f
      BY <2>3, <2>4
    <2>6. a = b /\ b = c
      <3>1. a = b
        BY <2>1, <2>3, <2>4, <2>5, CarriesEmpty
      <3>2. b = c
        BY <2>1, <2>3, <2>4, <2>5, CarriesEmpty
      <3> QED BY <3>1, <3>2
    <2>7. Len(wbuf[s][k]) = f - c
      BY <2>3, <2>4, <2>5
    <2>8. Len(wbuf[s][k]) = Due(s, k)
      BY <2>2 DEF HeldInv, Announced, AnnouncedKey, UpInv, UpSide
    <2>9. Due(s, k) = 0
      <3>1. ~Queued(wq[s], Message(k)) /\ wq[s] \in Seq(WiredEvent)
        BY <2>1 DEF Queued, HeldInv, TypeOK
      <3>2. CountOf(wq[s], Message(k)) = 0
        BY <3>1, CountType
      <3> QED BY <2>1, <3>2 DEF Due
    <2> QED BY <2>4, <2>5, <2>6, <2>7, <2>8, <2>9
  <1> QED BY <1>1, TypeCorrect, StreamsOpenedOnce, QueuesOrdered, MessagesAnnounced,
             MessagesOnPath, TornHolds, PTL DEF HeldInv

LEMMA QuietMaps ==
  ASSUME HeldInv, Up, Quiet, NEW s \in Side, NEW k \in Key
  PROVE  /\ k \in wired[s] <=> k \in helper[s]
         /\ k \in wired[s] => Mirror(k) \in wired[Peer(s)]
  <1> PICK p \in Side : p = Peer(s)
    BY PeerSide
  <1> PICK m \in Key : m = Mirror(k)
    BY MirrorKey
  <1>1. wq[s] = <<>> /\ uq[s] = <<>> /\ net[s] = <<>> /\ wq[p] = <<>> /\ net[p] = <<>>
    BY DEF Quiet
  <1>2. \A f : ~Queued(wq[s], f) /\ ~Queued(uq[s], f) /\ ~Queued(net[s], f)
               /\ ~Queued(wq[p], f) /\ ~Queued(net[p], f)
    BY <1>1 DEF Queued
  <1>3. ~WDropped(s, k) /\ ~UDropped(s, k) /\ ~NDropped(p, m)
    BY <1>2 DEF WDropped, UDropped, NDropped
  <1>4. TornKey(s, k)
    BY DEF HeldInv, TornInv
  <1>5. /\ Source(s, k) => Sink(s, k)
        /\ Sink(s, k) => Source(s, k)
        /\ Source(s, k) => Source(p, m)
    BY <1>3, <1>4 DEF TornKey
  <1>6. /\ RxAlive(s, k) <=> k \in wired[s]
        /\ TxAlive(s, k) <=> k \in helper[s]
        /\ RxAlive(p, m) <=> m \in wired[p]
    BY <1>2 DEF RxAlive, TxAlive
  <1>7. k \in wired[s] \/ k \in helper[s] => Opened(s, k)
    BY KnownOpened DEF HeldInv
  <1>8. Opened(s, k) => Opened(p, m)
    <2> SUFFICES ASSUME Opened(s, k) PROVE Opened(p, m)
      OBVIOUS
    <2>1. Allotted(p, m)
      BY OpenedAllotted, MirrorAllotted
    <2>2. ~Queued(net[Peer(p)], OpenFrame(m[1]))
      BY <1>2, PeerSide
    <2> QED BY <2>1, <2>2 DEF Opened, Allotted
  <1> QED BY <1>5, <1>6, <1>7, <1>8 DEF Source, Sink

\* When nothing is queued or under way, the four maps agree on which streams there are: a
\* stream that has gone from one has gone from all, and no other has.
THEOREM StreamMapsAgree == Spec => []MapsAgree
  <1>1. HeldInv => MapsAgree
    <2> SUFFICES ASSUME HeldInv, Up, Quiet, NEW s \in Side
                 PROVE  /\ wired[s] = helper[s]
                        /\ wired[s] = {Mirror(k) : k \in wired[Peer(s)]}
      BY DEF MapsAgree
    <2>1. Peer(s) \in Side /\ Peer(Peer(s)) = s
      BY PeerSide
    <2>2. \A x \in Side : wired[x] \subseteq Key /\ helper[x] \subseteq Key
      BY DEF HeldInv, TypeOK
    <2>3. wired[s] = helper[s]
      BY <2>2, QuietMaps
    <2>4. \A k \in Key : Mirror(k) \in Key /\ Mirror(Mirror(k)) = k
      BY MirrorKey
    <2>5. \A k \in wired[s] : Mirror(k) \in wired[Peer(s)]
      BY <2>2, QuietMaps
    <2>6. \A k \in wired[Peer(s)] : Mirror(k) \in wired[s]
      <3> SUFFICES ASSUME NEW k \in wired[Peer(s)] PROVE Mirror(k) \in wired[s]
        OBVIOUS
      <3>1. k \in Key
        BY <2>1, <2>2
      <3>2. Mirror(k) \in wired[Peer(Peer(s))]
        BY <2>1, <3>1, QuietMaps
      <3> QED BY <2>1, <3>2
    <2> QED BY <2>2, <2>3, <2>4, <2>5, <2>6
  <1> QED BY <1>1, TypeCorrect, StreamsOpenedOnce, QueuesOrdered, MessagesAnnounced,
             MessagesOnPath, TornHolds, PTL DEF HeldInv

-----------------------------------------------------------------------------
(* Shutdown: where the events are that send accepted.                       *)

\* How many events (or event frames) are in q.
Tags(q) == [i \in DOMAIN q |-> q[i].t]
EventsIn(q) == CountOf(Tags(q), "event")

LEMMA EventsAppend ==
  ASSUME NEW S, NEW q \in Seq(S), NEW e \in S
  PROVE  /\ EventsIn(q) \in Nat
         /\ EventsIn(Append(q, e)) = EventsIn(q) + (IF e.t = "event" THEN 1 ELSE 0)
  <1> DEFINE T == {d.t : d \in S}
             r == Append(q, e)
  <1>1. Tags(q) \in Seq(T) /\ e.t \in T
    BY DEF Tags
  <1>2. Tags(r) = Append(Tags(q), e.t)
    <2>1. /\ DOMAIN r = 1..(Len(q) + 1) /\ r[Len(q) + 1] = e /\ Len(q) \in Nat
          /\ \A i \in 1..Len(q) : r[i] = q[i]
      OBVIOUS
    <2>2. Tags(q) = [i \in 1..Len(q) |-> q[i].t] /\ Len(Tags(q)) = Len(q)
      BY <1>1 DEF Tags
    <2>3. Append(Tags(q), e.t)
            = [i \in 1..(Len(q) + 1) |-> IF i = Len(q) + 1 THEN e.t ELSE Tags(q)[i]]
      BY <1>1, <2>2
    <2> HIDE DEF r
    <2>4. Tags(r) = [i \in 1..(Len(q) + 1) |-> r[i].t]
      BY <2>1 DEF Tags
    <2>5. ASSUME NEW i \in 1..(Len(q) + 1)
          PROVE  r[i].t = IF i = Len(q) + 1 THEN e.t ELSE Tags(q)[i]
      <3>1. CASE i = Len(q) + 1
        BY <2>1, <3>1
      <3>2. CASE i # Len(q) + 1
        <4>1. i \in 1..Len(q)
          BY <2>1, <3>2
        <4> QED BY <2>1, <2>2, <3>2, <4>1
      <3> QED BY <3>1, <3>2
    <2> QED BY <2>3, <2>4, <2>5
  <1> HIDE DEF T, r
  <1> DEFINE tags == Tags(q)
             t == e.t
  <1>3. tags \in Seq(T) /\ t \in T /\ Tags(r) = Append(tags, t)
    BY <1>1, <1>2
  <1> HIDE DEF tags, t
  <1>4. CountOf(tags, "event") \in Nat
    BY <1>3, CountType
  <1>5. CountOf(Append(tags, t), "event") = CountOf(tags, "event") + (IF t = "event" THEN 1 ELSE 0)
    BY <1>3, CountAppend
  <1>6. CountOf(Tags(r), "event") = CountOf(tags, "event") + (IF t = "event" THEN 1 ELSE 0)
    BY <1>3, <1>5
  <1> QED BY <1>4, <1>6 DEF EventsIn, r, tags, t

LEMMA EventsTail ==
  ASSUME NEW S, NEW q \in Seq(S), q # <<>>
  PROVE  EventsIn(q) = EventsIn(Tail(q)) + (IF Head(q).t = "event" THEN 1 ELSE 0)
  <1> DEFINE T == {d.t : d \in S}
             r == Tail(q)
  <1>1. Tags(q) \in Seq(T) /\ Tags(q) # <<>> /\ Head(Tags(q)) = Head(q).t
    BY DEF Tags
  <1>2. Tags(r) = Tail(Tags(q))
    <2>1. /\ DOMAIN r = 1..(Len(q) - 1) /\ Len(q) \in Nat
          /\ \A i \in 1..(Len(q) - 1) : r[i] = q[i + 1] /\ i + 1 \in 1..Len(q)
      OBVIOUS
    <2>2. Tags(q) = [i \in 1..Len(q) |-> q[i].t] /\ Len(Tags(q)) = Len(q)
      BY <1>1 DEF Tags
    <2>3. Tail(Tags(q)) = [i \in 1..(Len(q) - 1) |-> Tags(q)[i + 1]]
      BY <1>1, <2>2
    <2> HIDE DEF r
    <2>4. Tags(r) = [i \in 1..(Len(q) - 1) |-> r[i].t]
      BY <2>1 DEF Tags
    <2>5. \A i \in 1..(Len(q) - 1) : r[i].t = Tags(q)[i + 1]
      BY <2>1, <2>2
    <2> QED BY <2>3, <2>4, <2>5
  <1> HIDE DEF T, r
  <1>3. CountOf(Tags(q), "event")
          = CountOf(Tail(Tags(q)), "event") + (IF Head(Tags(q)) = "event" THEN 1 ELSE 0)
    BY <1>1, CountTail
  <1> QED BY <1>1, <1>2, <1>3 DEF EventsIn, r

LEMMA EventsEmpty == EventsIn(<<>>) = 0
  <1>1. Tags(<<>>) = <<>> /\ <<>> \in Seq({})
    BY DEF Tags
  <1>2. ~Queued(<<>>, "event")
    BY DEF Queued
  <1> QED BY <1>1, <1>2, CountType DEF EventsIn

\* No handle was dropped before its shutdown was through, and the connection has held.
NoFault == ~broken /\ \A x \in Side : handle[x] # "dropped"

\* The wired task is through with its queue before it ends; and without a fault the peer
\* reads until then, and each event is handled, queued or on the transport.
EventsSide(s) ==
  /\ wstate[s] = "done" => wq[s] = <<>>
  /\ NoFault =>
       /\ reader[Peer(s)] # "run" => wstate[s] = "done" /\ net[s] = <<>>
       /\ evSent[s] = evHandled[Peer(s)] + EventsIn(wq[s]) + EventsIn(net[s])

EventsKept == \A s \in Side : EventsSide(s)

\* While a wired task runs without a fault, its writes arrive.
LEMMA NoFaultWrites ==
  ASSUME EventsKept, NoFault, NEW s \in Side, wstate[s] # "done"
  PROVE  ~Down(s) /\ \A f : Write(s, f) => net' = [net EXCEPT ![s] = Append(@, f)] /\ wstate' = wstate
  <1>1. EventsSide(s)
    BY DEF EventsKept
  <1>2. ~Down(s)
    BY <1>1 DEF EventsSide, NoFault, Down
  <1> QED BY <1>2 DEF Write

\* An entry that is no event is queued, or none is.
LEMMA QueueKeepsEvents ==
  ASSUME TypeOK, EventsKept, NoFault' => NoFault, NEW s \in Side, NEW e \in WiredEvent,
         e.t # "event", PushW(s, e) \/ wq' = wq,
         UNCHANGED <<wstate, net, reader, evSent, evHandled>>
  PROVE  EventsKept'
  <1> SUFFICES ASSUME NEW x \in Side PROVE EventsSide(x)'
    BY DEF EventsKept
  <1> DEFINE r == Append(wq[x], e)
  <1>1. EventsSide(x) /\ wq \in [Side -> Seq(WiredEvent)] /\ wq[x] \in Seq(WiredEvent)
    BY DEF EventsKept, TypeOK
  <1>2. wq'[x] = wq[x] \/ (wstate[x] = "open" /\ wq'[x] = r)
    BY <1>1 DEF PushW, Pushed
  <1>3. EventsIn(wq[x]) \in Nat /\ EventsIn(r) = EventsIn(wq[x]) + 0
    BY <1>1, EventsAppend
  <1> HIDE DEF r
  <1>4. EventsIn(wq'[x]) = EventsIn(wq[x]) /\ (wstate[x] = "done" => wq'[x] = wq[x])
    BY <1>2, <1>3
  <1> QED BY <1>1, <1>4 DEF EventsSide

\* The wired task takes the head of its queue and may write a frame: an event of the queue
\* becomes a frame.
LEMMA WiredMoves ==
  ASSUME TypeOK, EventsKept, NEW s \in Side, wstate[s] # "done", wq[s] # <<>>,
         NEW f \in WiringEvent, f.t = "event" <=> Head(wq[s]).t = "event",
         PopW(s), Write(s, f) \/ (f.t # "event" /\ UNCHANGED <<wstate, net>>),
         UNCHANGED <<broken, handle, reader, evSent, evHandled>>
  PROVE  EventsKept'
  <1> SUFFICES ASSUME NEW x \in Side PROVE EventsSide(x)'
    BY DEF EventsKept
  <1>1. /\ EventsSide(x) /\ EventsSide(s) /\ wq \in [Side -> Seq(WiredEvent)]
        /\ net \in [Side -> Seq(WiringEvent)] /\ NoFault' = NoFault
        /\ wstate \in [Side -> {"open", "closed", "done"}]
    BY DEF EventsKept, TypeOK, NoFault
  <1>2. CASE x # s
    <2>1. wq'[x] = wq[x] /\ net'[x] = net[x] /\ wstate'[x] = wstate[x]
      BY <1>1, <1>2 DEF PopW, Write
    <2> QED BY <1>1, <2>1 DEF EventsSide
  <1>3. CASE x = s
    <2>1. wstate'[s] # "done"
      BY <1>1 DEF Write
    <2>2. CASE NoFault
      <3>1. ~(reader[Peer(s)] # "run")
        BY <1>1, <2>2 DEF EventsSide
      <3>2. evSent[s] = evHandled[Peer(s)] + EventsIn(wq[s]) + EventsIn(net[s])
        BY <1>1, <2>2 DEF EventsSide
      <3> DEFINE r == Append(net[s], f)
      <3>3. wq'[s] = Tail(wq[s]) /\ (net'[s] = r \/ (f.t # "event" /\ net'[s] = net[s]))
        BY <1>1, <2>2, NoFaultWrites DEF PopW
      <3>4. /\ EventsIn(net[s]) \in Nat
            /\ EventsIn(r) = EventsIn(net[s]) + (IF f.t = "event" THEN 1 ELSE 0)
        BY <1>1, EventsAppend
      <3> HIDE DEF r
      <3>5. EventsIn(wq[s]) = EventsIn(Tail(wq[s])) + (IF Head(wq[s]).t = "event" THEN 1 ELSE 0)
        BY <1>1, EventsTail
      <3>6. EventsIn(Tail(wq[s])) \in Nat
        <4>1. Tail(wq[s]) \in Seq(WiredEvent)
          BY <1>1
        <4> QED BY <4>1, EventsAppend, EventTypes
      <3>7. EventsIn(wq'[s]) + EventsIn(net'[s]) = EventsIn(wq[s]) + EventsIn(net[s])
        <4>1. CASE f.t = "event"
          BY <3>3, <3>4, <3>5, <3>6, <4>1
        <4>2. CASE f.t # "event"
          BY <3>3, <3>4, <3>5, <3>6, <4>2
        <4> QED BY <4>1, <4>2
      <3>8. evHandled[Peer(s)] \in Nat /\ EventsIn(wq[s]) \in Nat /\ EventsIn(wq'[s]) \in Nat
            /\ EventsIn(net'[s]) \in Nat
        <4>1. evHandled[Peer(s)] \in Nat
          BY PeerSide DEF TypeOK
        <4>2. EventsIn(net'[s]) \in Nat
          BY <3>3, <3>4
        <4>3. EventsIn(wq[s]) \in Nat /\ EventsIn(wq'[s]) \in Nat
          BY <3>3, <3>5, <3>6
        <4> QED BY <4>1, <4>2, <4>3
      <3>9. evSent[s] = evHandled[Peer(s)] + EventsIn(wq'[s]) + EventsIn(net'[s])
        <4> DEFINE h == evHandled[Peer(s)]
                   w == EventsIn(wq[s])
                   n == EventsIn(net[s])
                   v == EventsIn(wq'[s])
                   m == EventsIn(net'[s])
        <4>1. h \in Nat /\ w \in Nat /\ n \in Nat /\ v \in Nat /\ m \in Nat
          BY <3>4, <3>8
        <4>2. v + m = w + n /\ evSent[s] = h + w + n
          BY <3>2, <3>7
        <4> HIDE DEF h, w, n, v, m
        <4>3. evSent[s] = h + v + m
          BY <4>1, <4>2
        <4> QED BY <4>3 DEF h, v, m
      <3> QED BY <1>3, <2>1, <3>1, <3>9 DEF EventsSide
    <2>3. CASE ~NoFault
      BY <1>1, <1>3, <2>1, <2>3 DEF EventsSide
    <2> QED BY <2>2, <2>3
  <1> QED BY <1>2, <1>3

LEMMA EventsWired ==
  ASSUME TypeOK, EventsKept, NEW s \in Side, WiredStep(s)
  PROVE  EventsKept'
  <1> USE DEF wiredVars, helperVars, netVars, halfVars
  <1>1. CASE WiredNone(s)
    <2>1. /\ wstate[s] # "done" /\ wq[s] # <<>> /\ Head(wq[s]).t = "none" /\ PopW(s)
          /\ wstate' = [wstate EXCEPT ![s] = "closed"]
          /\ UNCHANGED <<net, broken, handle, reader, evSent, evHandled>>
      BY <1>1 DEF WiredNone, WiredAt
    <2> SUFFICES ASSUME NEW x \in Side PROVE EventsSide(x)'
      BY DEF EventsKept
    <2>2. /\ EventsSide(x) /\ wq \in [Side -> Seq(WiredEvent)] /\ NoFault' = NoFault
          /\ wstate \in [Side -> {"open", "closed", "done"}]
      BY <2>1 DEF EventsKept, TypeOK, NoFault
    <2>3. CASE x # s
      <3>1. wq'[x] = wq[x] /\ wstate'[x] = wstate[x]
        BY <2>1, <2>2, <2>3 DEF PopW
      <3> QED BY <2>1, <2>2, <3>1 DEF EventsSide
    <2>4. CASE x = s
      <3>1. wq'[s] = Tail(wq[s]) /\ wstate'[s] = "closed"
        BY <2>1, <2>2 DEF PopW
      <3>2. EventsIn(wq[s]) = EventsIn(Tail(wq[s])) + 0
        BY <2>1, <2>2, EventsTail
      <3>3. EventsIn(Tail(wq[s])) \in Nat
        <4>1. Tail(wq[s]) \in Seq(WiredEvent)
          BY <2>1, <2>2
        <4> QED BY <4>1, EventsAppend, EventTypes
      <3>4. EventsIn(wq'[s]) = EventsIn(wq[s])
        BY <3>1, <3>2, <3>3
      <3> QED BY <2>1, <2>2, <2>4, <3>1, <3>4 DEF EventsSide
    <2> QED BY <2>3, <2>4
  <1>2. CASE WiredRegister(s)
    <2>1. /\ wstate[s] # "done" /\ wq[s] # <<>> /\ Head(wq[s]).t = "register" /\ PopW(s)
          /\ UNCHANGED <<wstate, net, broken, handle, reader, evSent, evHandled>>
      BY <1>2 DEF WiredRegister, WiredAt
    <2> PICK k \in Key : k = Head(wq[s]).k
      BY <1>2, HeadW DEF WiredRegister
    <2>2. DropFrame(k) \in WiringEvent /\ DropFrame(k).t = "drop"
      BY EventTypes DEF DropFrame
    <2> QED BY <2>1, <2>2, WiredMoves
  <1>3. CASE WiredMessage(s)
    <2>1. /\ wstate[s] # "done" /\ wq[s] # <<>> /\ Head(wq[s]).t = "message" /\ PopW(s)
          /\ UNCHANGED <<broken, handle, reader, evSent, evHandled>>
      BY <1>3 DEF WiredMessage, WiredAt
    <2> PICK j \in Key :
          \/ /\ Head(wbuf[s][j]) \in Nat \ {0}
             /\ Data(Mirror(j), Head(wbuf[s][j])) \in WiringEvent
             /\ Write(s, Data(Mirror(j), Head(wbuf[s][j])))
          \/ UNCHANGED <<wstate, net>>
      BY <1>3, MessageWrites
    <2>2. CASE /\ Data(Mirror(j), Head(wbuf[s][j])) \in WiringEvent
               /\ Write(s, Data(Mirror(j), Head(wbuf[s][j])))
      <3>1. Data(Mirror(j), Head(wbuf[s][j])).t = "data"
        BY DEF Data
      <3> QED BY <2>1, <2>2, <3>1, WiredMoves
    <2>3. CASE UNCHANGED <<wstate, net>>
      <3>1. DropFrame(j) \in WiringEvent /\ DropFrame(j).t = "drop"
        BY EventTypes DEF DropFrame
      <3> QED BY <2>1, <2>3, <3>1, WiredMoves
    <2> QED BY <2>2, <2>3
  <1>4. CASE WiredDrop(s)
    <2>1. /\ wstate[s] # "done" /\ wq[s] # <<>> /\ Head(wq[s]).t = "drop" /\ PopW(s)
          /\ UNCHANGED <<broken, handle, reader, evSent, evHandled>>
      BY <1>4 DEF WiredDrop, WiredAt
    <2> PICK j \in Key : Write(s, DropFrame(Mirror(j))) \/ UNCHANGED <<wstate, net>>
      BY <1>4, DropWrites
    <2>2. DropFrame(Mirror(j)) \in WiringEvent /\ DropFrame(Mirror(j)).t = "drop"
      BY MirrorKey, EventTypes DEF DropFrame
    <2> QED BY <2>1, <2>2, WiredMoves
  <1>5. CASE WiredEventDone(s)
    <2>1. /\ wstate[s] # "done" /\ wq[s] # <<>> /\ Head(wq[s]).t = "event" /\ PopW(s)
          /\ Write(s, EventFrame)
          /\ UNCHANGED <<broken, handle, reader, evSent, evHandled>>
      BY <1>5 DEF WiredEventDone, WiredAt
    <2>2. EventFrame \in WiringEvent /\ EventFrame.t = "event"
      BY EventTypes DEF EventFrame
    <2> QED BY <2>1, <2>2, WiredMoves
  <1>6. CASE WiredEnd(s)
    <2>1. /\ wq[s] = <<>> /\ wstate' = [wstate EXCEPT ![s] = "done"]
          /\ UNCHANGED <<wq, net, broken, handle, reader, evSent, evHandled>>
      BY <1>6 DEF WiredEnd
    <2> SUFFICES ASSUME NEW x \in Side PROVE EventsSide(x)'
      BY DEF EventsKept
    <2>2. /\ EventsSide(x) /\ NoFault' = NoFault
          /\ wstate'[x] = IF x = s THEN "done" ELSE wstate[x]
      BY <2>1 DEF EventsKept, NoFault, TypeOK
    <2> QED BY <2>1, <2>2 DEF EventsSide
  <1>7. CASE WiredConnectFails(s) \/ WiredEventFails(s)
    <2>1. /\ wstate[s] # "done" /\ Down(s) /\ wstate' = [wstate EXCEPT ![s] = "closed"]
          /\ \A x \in Side : x # s => wq'[x] = wq[x]
          /\ UNCHANGED <<net, broken, handle, reader, evSent, evHandled>>
      <3>1. wq \in [Side -> Seq(WiredEvent)]
        BY DEF TypeOK
      <3>2. CASE WiredConnectFails(s)
        BY <3>1, <3>2 DEF WiredConnectFails, WiredAt, Pushed
      <3>3. CASE WiredEventFails(s)
        BY <3>1, <3>3 DEF WiredEventFails, WiredAt, PopW
      <3> QED BY <1>7, <3>2, <3>3
    <2>2. ~NoFault
      BY <2>1, NoFaultWrites
    <2> SUFFICES ASSUME NEW x \in Side PROVE EventsSide(x)'
      BY DEF EventsKept
    <2>3. /\ EventsSide(x) /\ ~NoFault'
          /\ wstate'[x] = IF x = s THEN "closed" ELSE wstate[x]
      BY <2>1, <2>2 DEF EventsKept, NoFault, TypeOK
    <2> QED BY <2>1, <2>3 DEF EventsSide
  <1>8. CASE WiredConnect(s)
    <2>1. /\ wstate[s] # "done" /\ WiredAt(s, "event") /\ nextId[s] < MaxStreams
          /\ wq' = [wq EXCEPT ![s][1].chans = @ - 1]
          /\ net' = IF Down(s) THEN net
                    ELSE [net EXCEPT ![s] = Append(@, OpenFrame(nextId[s] + 1))]
          /\ UNCHANGED <<wstate, broken, handle, reader, evSent, evHandled>>
      BY <1>8 DEF WiredConnect, WiredAt
    <2>2. /\ wq[s] \in Seq(WiredEvent) /\ wq[s] # <<>>
          /\ wq[s][1] \in [t : {"event"}, chans : 0..MaxChans]
      BY <2>1, HeadW DEF WiredEvent, None
    <2>3. EventsIn(wq'[s]) = EventsIn(wq[s])
      <3> DEFINE a == [wq[s][1] EXCEPT !.chans = @ - 1]
      <3>1. a.t = wq[s][1].t
        BY <2>2
      <3>2. wq'[s] = [wq[s] EXCEPT ![1] = a]
        BY <2>1 DEF TypeOK
      <3> HIDE DEF a
      <3>3. Tags(wq'[s]) = Tags(wq[s])
        BY <2>2, <3>1, <3>2 DEF Tags
      <3> QED BY <3>3 DEF EventsIn
    <2>4. OpenFrame(nextId[s] + 1) \in WiringEvent /\ OpenFrame(nextId[s] + 1).t = "open"
      BY <2>1, NextIdType, EventTypes DEF OpenFrame
    <2>5. EventsIn(net'[s]) = EventsIn(net[s])
      <3> DEFINE r == Append(net[s], OpenFrame(nextId[s] + 1))
      <3>1. net[s] \in Seq(WiringEvent) /\ (net'[s] = net[s] \/ net'[s] = r)
        BY <2>1 DEF TypeOK
      <3>2. EventsIn(net[s]) \in Nat /\ EventsIn(r) = EventsIn(net[s]) + 0
        BY <2>4, <3>1, EventsAppend
      <3> HIDE DEF r
      <3> QED BY <3>1, <3>2
    <2> SUFFICES ASSUME NEW x \in Side PROVE EventsSide(x)'
      BY DEF EventsKept
    <2>6. EventsSide(x) /\ EventsSide(s) /\ NoFault' = NoFault
      BY <2>1 DEF EventsKept, NoFault
    <2>7. CASE x # s
      <3>1. wq'[x] = wq[x] /\ net'[x] = net[x]
        BY <2>1, <2>7 DEF TypeOK
      <3> QED BY <2>1, <2>6, <3>1 DEF EventsSide
    <2>8. CASE x = s
      BY <2>1, <2>3, <2>5, <2>6, <2>8 DEF EventsSide
    <2> QED BY <2>7, <2>8
  <1> QED BY <1>1, <1>2, <1>3, <1>4, <1>5, <1>6, <1>7, <1>8 DEF WiredStep

\* The reader takes a frame: an event frame is handled.
LEMMA ReadMoves ==
  ASSUME TypeOK, EventsKept, NEW s \in Side, NEW t, Reading(s, t),
         PushW(s, Register(Remote(Head(net[Peer(s)]).id))) \/ wq' = wq,
         evHandled' = IF t = "event" THEN [evHandled EXCEPT ![s] = @ + 1] ELSE evHandled,
         UNCHANGED <<wstate, broken, handle, reader, evSent>>
  PROVE  EventsKept'
  <1> SUFFICES ASSUME NEW x \in Side PROVE EventsSide(x)'
    BY DEF EventsKept
  <1>1. Peer(s) \in Side /\ Peer(Peer(s)) = s /\ Peer(s) # s
    BY PeerSide
  <1>2. /\ EventsSide(x) /\ NoFault' = NoFault /\ reader[s] = "run"
        /\ net[Peer(s)] # <<>> /\ Head(net[Peer(s)]).t = t
        /\ net' = [net EXCEPT ![Peer(s)] = Tail(@)]
    BY DEF EventsKept, NoFault, Reading
  <1>3. /\ wq \in [Side -> Seq(WiredEvent)] /\ net \in [Side -> Seq(WiringEvent)]
        /\ evHandled \in [Side -> Nat]
    BY DEF TypeOK
  <1>4. /\ EventsIn(wq'[x]) = EventsIn(wq[x]) /\ EventsIn(wq[x]) \in Nat
        /\ wstate[x] = "done" => wq'[x] = wq[x]
    <2> DEFINE e == Register(Remote(Head(net[Peer(s)]).id))
    <2>1. EventsIn(wq[x]) \in Nat
      BY <1>3, EventsAppend, EventTypes
    <2>2. CASE wq' = wq
      BY <2>1, <2>2
    <2>3. CASE PushW(s, e)
      <3>1. e.t = "register"
        BY DEF Register
      <3>2. \/ wq'[x] = wq[x]
            \/ wstate[x] = "open" /\ wq'[x] = Append(wq[x], e)
        BY <1>3, <2>3 DEF PushW, Pushed
      <3> HIDE DEF e
      <3>3. EventsIn(Append(wq[x], e)) = EventsIn(wq[x])
        <4>1. wq[x] \in Seq(WiredEvent \cup {e}) /\ e \in WiredEvent \cup {e}
          BY <1>3
        <4>2. EventsIn(Append(wq[x], e)) = EventsIn(wq[x]) + 0
          BY <3>1, <4>1, EventsAppend
        <4> QED BY <2>1, <4>2
      <3> QED BY <2>1, <3>2, <3>3
    <2> QED BY <2>2, <2>3
  <1>5. CASE x = Peer(s)
    <2>1. wq'[x] = wq[x] /\ net'[x] = Tail(net[x])
      BY <1>1, <1>2, <1>3, <1>5 DEF PushW, Pushed
    <2>2. EventsIn(net[x]) = EventsIn(Tail(net[x])) + (IF t = "event" THEN 1 ELSE 0)
      BY <1>1, <1>2, <1>3, <1>5, EventsTail
    <2>3. EventsIn(Tail(net[x])) \in Nat
      <3>1. Tail(net[x]) \in Seq(WiringEvent)
        BY <1>1, <1>2, <1>3, <1>5
      <3> QED BY <3>1, EventsAppend, EventTypes
    <2>4. evHandled'[s] = evHandled[s] + (IF t = "event" THEN 1 ELSE 0) /\ evHandled[s] \in Nat
      BY <1>3
    <2>5. NoFault => evSent[x] = evHandled'[s] + EventsIn(wq'[x]) + EventsIn(net'[x])
      <3>1. NoFault => evSent[x] = evHandled[s] + EventsIn(wq[x]) + EventsIn(net[x])
        BY <1>1, <1>2, <1>5 DEF EventsSide
      <3>2. EventsIn(net'[x]) = EventsIn(Tail(net[x])) /\ EventsIn(wq'[x]) = EventsIn(wq[x])
        BY <2>1
      <3> QED BY <1>4, <2>2, <2>3, <2>4, <3>1, <3>2
    <2> QED BY <1>1, <1>2, <1>4, <1>5, <2>5 DEF EventsSide
  <1>6. CASE x = s
    <2>1. net'[x] = net[x] /\ evHandled'[Peer(x)] = evHandled[Peer(x)]
      BY <1>1, <1>2, <1>3, <1>6
    <2> QED BY <1>2, <1>4, <2>1 DEF EventsSide
  <1>7. x = s \/ x = Peer(s)
    BY SidesAssumption DEF Side, Peer
  <1> QED BY <1>5, <1>6, <1>7

LEMMA EventsReader ==
  ASSUME TypeOK, EventsKept, NEW s \in Side, ReaderStep(s)
  PROVE  EventsKept'
  <1> USE DEF wiredVars, helperVars, netVars, halfVars
  <1>1. CASE ReadOpen(s)
    BY <1>1, ReadMoves DEF ReadOpen
  <1>2. CASE ReadEvent(s)
    BY <1>2, ReadMoves DEF ReadEvent
  <1>3. CASE ReadMessage(s)
    BY <1>3, ReadMoves DEF ReadMessage
  <1>4. CASE ReadDrop(s)
    BY <1>4, ReadMoves DEF ReadDrop
  <1>5. CASE ReadEnd(s)
    <2>1. /\ net[Peer(s)] = <<>> /\ (wstate[Peer(s)] = "done" \/ broken)
          /\ reader' = [reader EXCEPT ![s] = "join"]
          /\ UNCHANGED <<wq, wstate, net, broken, handle, evSent, evHandled>>
      BY <1>5 DEF ReadEnd, Eof
    <2> SUFFICES ASSUME NEW x \in Side PROVE EventsSide(x)'
      BY DEF EventsKept
    <2>2. EventsSide(x) /\ NoFault' = NoFault /\ Peer(x) \in Side /\ Peer(Peer(x)) = x
      BY <2>1, PeerSide DEF EventsKept, NoFault
    <2>3. CASE Peer(x) = s
      <3>1. x = Peer(s)
        BY <2>2, <2>3
      <3>2. NoFault => wstate[x] = "done" /\ net[x] = <<>>
        BY <2>1, <3>1 DEF NoFault
      <3> QED BY <2>1, <2>2, <3>2 DEF EventsSide
    <2>4. CASE Peer(x) # s
      <3>1. reader'[Peer(x)] = reader[Peer(x)]
        BY <2>1, <2>2, <2>4 DEF TypeOK
      <3> QED BY <2>1, <2>2, <3>1 DEF EventsSide
    <2> QED BY <2>3, <2>4
  <1>6. CASE ReadJoin(s)
    <2>1. /\ reader[s] = "join" /\ PushW(s, None) /\ reader' = [reader EXCEPT ![s] = "done"]
          /\ UNCHANGED <<wstate, net, broken, handle, evSent, evHandled>>
      BY <1>6 DEF ReadJoin
    <2> SUFFICES ASSUME NEW x \in Side PROVE EventsSide(x)'
      BY DEF EventsKept
    <2>2. /\ EventsSide(x) /\ NoFault' = NoFault
          /\ wq \in [Side -> Seq(WiredEvent)] /\ wq[x] \in Seq(WiredEvent)
      BY <2>1 DEF EventsKept, NoFault, TypeOK
    <2>3. reader'[Peer(x)] # "run" => reader[Peer(x)] # "run"
      BY <2>1, PeerSide DEF TypeOK
    <2>4. None \in WiredEvent /\ None.t = "none"
      BY EventTypes DEF None
    <2> DEFINE r == Append(wq[x], None)
    <2>5. wq'[x] = wq[x] \/ (wstate[x] = "open" /\ wq'[x] = r)
      BY <2>1, <2>2 DEF PushW, Pushed
    <2>6. EventsIn(wq[x]) \in Nat /\ EventsIn(r) = EventsIn(wq[x]) + 0
      BY <2>2, <2>4, EventsAppend
    <2> HIDE DEF r
    <2>7. EventsIn(wq'[x]) = EventsIn(wq[x]) /\ (wstate[x] = "done" => wq'[x] = wq[x])
      BY <2>5, <2>6
    <2> QED BY <2>1, <2>2, <2>3, <2>7 DEF EventsSide
  <1> QED BY <1>1, <1>2, <1>3, <1>4, <1>5, <1>6 DEF ReaderStep

LEMMA EventsHelper ==
  ASSUME TypeOK, EventsKept, NEW s \in Side, HelperStep(s)
  PROVE  EventsKept'
  <1> USE DEF wiredVars, helperVars, netVars, halfVars
  <1>1. UNCHANGED <<wstate, net, reader, broken, handle, evSent, evHandled>>
    BY DEF HelperStep, HelperMessage, HelperRegister, HelperDrop, HelperNone, HelperEnd
  <1>2. NoFault' = NoFault
    BY <1>1 DEF NoFault
  <1>3. CASE HelperDrop(s)
    <2>1. Head(uq[s]).k \in Key
      BY <1>3, HeadU DEF HelperDrop
    <2> PICK k \in Key : k = Head(uq[s]).k
      BY <2>1
    <2>2. PushW(s, Drop(k, FALSE)) \/ wq' = wq
      BY <1>3 DEF HelperDrop
    <2>3. Drop(k, FALSE) \in WiredEvent /\ Drop(k, FALSE).t = "drop"
      BY EventTypes DEF Drop
    <2> QED BY <1>1, <1>2, <2>2, <2>3, QueueKeepsEvents
  <1>4. CASE ~HelperDrop(s)
    <2>1. wq' = wq
      BY <1>4 DEF HelperStep, HelperMessage, HelperRegister, HelperNone, HelperEnd
    <2>2. None \in WiredEvent /\ None.t = "none"
      BY EventTypes DEF None
    <2> QED BY <1>1, <1>2, <2>1, <2>2, QueueKeepsEvents
  <1> QED BY <1>3, <1>4

LEMMA EventsApp ==
  ASSUME TypeOK, EventsKept, NEW s \in Side, AppStep(s)
  PROVE  EventsKept'
  <1> USE DEF wiredVars, helperVars, netVars, halfVars
  <1>1. None \in WiredEvent /\ None.t = "none"
    BY EventTypes DEF None
  <1>2. ASSUME NEW n \in 0..MaxChans, Send(s, n) PROVE EventsKept'
    <2>1. /\ wstate[s] = "open" /\ PushW(s, Event(n)) /\ evSent' = [evSent EXCEPT ![s] = @ + 1]
          /\ UNCHANGED <<wstate, net, reader, broken, handle, evHandled>>
      BY <1>2 DEF Send
    <2> SUFFICES ASSUME NEW x \in Side PROVE EventsSide(x)'
      BY DEF EventsKept
    <2>2. /\ EventsSide(x) /\ NoFault' = NoFault /\ wq \in [Side -> Seq(WiredEvent)]
          /\ net \in [Side -> Seq(WiringEvent)] /\ evHandled \in [Side -> Nat]
          /\ evSent \in [Side -> Nat] /\ Peer(x) \in Side
      BY <2>1, PeerSide DEF EventsKept, NoFault, TypeOK
    <2>3. CASE x # s
      <3>1. wq'[x] = wq[x] /\ evSent'[x] = evSent[x]
        BY <2>1, <2>2, <2>3 DEF PushW, Pushed
      <3> QED BY <2>1, <2>2, <3>1 DEF EventsSide
    <2>4. CASE x = s
      <3>1. wq'[x] = Append(wq[x], Event(n)) /\ evSent'[x] = evSent[x] + 1
        BY <2>1, <2>2, <2>4 DEF PushW, Pushed
      <3>2. Event(n) \in WiredEvent /\ Event(n).t = "event"
        BY EventTypes DEF Event
      <3>3. EventsIn(wq[x]) \in Nat /\ EventsIn(wq'[x]) = EventsIn(wq[x]) + 1
        BY <2>2, <3>1, <3>2, EventsAppend
      <3>4. EventsIn(net[x]) \in Nat
        BY <2>2, EventsAppend, EventTypes
      <3>5. evHandled[Peer(x)] \in Nat
        BY <2>2
      <3>6. NoFault => evSent'[x] = evHandled[Peer(x)] + EventsIn(wq'[x]) + EventsIn(net[x])
        <4>1. NoFault => evSent[x] = evHandled[Peer(x)] + EventsIn(wq[x]) + EventsIn(net[x])
          BY <2>2 DEF EventsSide
        <4>2. \A h, w, o \in Nat : (h + w + o) + 1 = h + (w + 1) + o
          OBVIOUS
        <4>3. NoFault => evSent[x] + 1 = evHandled[Peer(x)] + (EventsIn(wq[x]) + 1) + EventsIn(net[x])
          BY <3>3, <3>4, <3>5, <4>1, <4>2
        <4> QED BY <3>1, <3>3, <4>3
      <3> QED BY <2>1, <2>2, <2>4, <3>6 DEF EventsSide
    <2> QED BY <2>3, <2>4
  <1>3. CASE SendNone(s) \/ Shutdown(s)
    <2>1. /\ \E h \in {"ending", "shutdown"} : handle' = [handle EXCEPT ![s] = h]
          /\ handle[s] \in {"held", "ending"} /\ PushW(s, None)
          /\ UNCHANGED <<wstate, net, reader, broken, evSent, evHandled>>
      BY <1>3 DEF SendNone, Shutdown
    <2>2. NoFault' => NoFault
      BY <2>1 DEF NoFault, TypeOK
    <2> QED BY <1>1, <2>1, <2>2, QueueKeepsEvents
  <1>4. CASE Abort(s) \/ AbandonShutdown(s)
    <2>1. handle' = [handle EXCEPT ![s] = "dropped"]
      BY <1>4 DEF Abort, AbandonShutdown
    <2>2. ~NoFault'
      BY <2>1 DEF NoFault, TypeOK
    <2> SUFFICES ASSUME NEW x \in Side PROVE EventsSide(x)'
      BY DEF EventsKept
    <2>3. EventsSide(x)
      BY DEF EventsKept
    <2>4. \/ wq'[x] = <<>>
          \/ wq'[x] = wq[x] /\ wstate'[x] = wstate[x]
      <3>1. CASE Abort(s)
        BY <3>1 DEF Abort, TypeOK
      <3>2. CASE AbandonShutdown(s)
        BY <3>2 DEF AbandonShutdown
      <3> QED BY <1>4, <3>1, <3>2
    <2> QED BY <2>2, <2>3, <2>4 DEF EventsSide
  <1>5. ASSUME NEW k \in Key, HalfStep(s, k) PROVE EventsKept'
    <2>1. /\ UNCHANGED <<wstate, net, reader, broken, handle, evSent, evHandled>>
          /\ PushW(s, Message(k)) \/ PushW(s, Drop(k, TRUE)) \/ wq' = wq
      BY <1>5 DEF HalfStep, FlushBegin, FlushEnd, FlushSend, SendData, SendEvent, ShutWrite,
                  DropWrite, DropRead, PollRead, PollReadEof
    <2>2. NoFault' = NoFault
      BY <2>1 DEF NoFault
    <2>3. /\ Message(k) \in WiredEvent /\ Message(k).t = "message"
          /\ Drop(k, TRUE) \in WiredEvent /\ Drop(k, TRUE).t = "drop"
      BY EventTypes DEF Message, Drop
    <2>4. CASE PushW(s, Message(k))
      BY <2>1, <2>2, <2>3, <2>4, QueueKeepsEvents
    <2>5. CASE PushW(s, Drop(k, TRUE)) \/ wq' = wq
      BY <2>1, <2>2, <2>3, <2>5, QueueKeepsEvents
    <2> QED BY <2>1, <2>4, <2>5
  <1> QED BY <1>2, <1>3, <1>4, <1>5 DEF AppStep

LEMMA EventsInit == ASSUME Init PROVE EventsKept
  <1> SUFFICES ASSUME NEW s \in Side PROVE EventsSide(s)
    BY DEF EventsKept
  <1>1. /\ wq[s] = <<>> /\ net[s] = <<>> /\ wstate[s] = "open" /\ reader[Peer(s)] = "run"
        /\ evSent[s] = 0 /\ evHandled[Peer(s)] = 0
    BY PeerSide DEF Init
  <1> QED BY <1>1, EventsEmpty DEF EventsSide

LEMMA EventsNext ==
  ASSUME TypeOK, EventsKept, [Next]_vars
  PROVE  EventsKept'
  <1> USE DEF wiredVars, helperVars, netVars, halfVars
  <1>1. CASE UNCHANGED vars
    <2>1. UNCHANGED <<wq, wstate, net, reader, broken, handle, evSent, evHandled>>
      BY <1>1 DEF vars
    <2> QED BY <2>1 DEF EventsKept, EventsSide, NoFault
  <1>2. CASE Break
    <2>1. broken' /\ UNCHANGED <<wq, wstate>>
      BY <1>2 DEF Break
    <2> QED BY <2>1 DEF EventsKept, EventsSide, NoFault
  <1> QED BY <1>1, <1>2, EventsWired, EventsReader, EventsHelper, EventsApp DEF Next

\* A shutdown without a fault loses no event: when the wired task of a side has ended and the
\* peer's reader has stopped, all that send accepted has been handled, for any number of
\* events with any number of channels in them and of shutdowns from either side.
THEOREM ShutdownKeepsEvents == Spec => []ShutdownLosesNoEvent
  <1>1. TypeOK /\ EventsKept => ShutdownLosesNoEvent
    <2> SUFFICES ASSUME TypeOK, EventsKept, NEW s \in Side, ~broken,
                        \A x \in Side : handle[x] # "dropped",
                        wstate[s] = "done", reader[Peer(s)] # "run"
                 PROVE  evHandled[Peer(s)] = evSent[s]
      BY DEF ShutdownLosesNoEvent
    <2>1. /\ wq[s] = <<>> /\ net[s] = <<>>
          /\ evSent[s] = evHandled[Peer(s)] + EventsIn(wq[s]) + EventsIn(net[s])
      BY DEF EventsKept, EventsSide, NoFault
    <2>2. EventsIn(wq[s]) = 0 /\ EventsIn(net[s]) = 0
      BY <2>1, EventsEmpty
    <2>3. evHandled[Peer(s)] \in Nat
      BY PeerSide DEF TypeOK
    <2> QED BY <2>1, <2>2, <2>3
  <1>2. Init => EventsKept
    BY EventsInit
  <1>3. TypeOK /\ EventsKept /\ [Next]_vars => EventsKept'
    BY EventsNext
  <1> QED BY <1>1, <1>2, <1>3, TypeCorrect, PTL DEF Spec

=============================================================================
