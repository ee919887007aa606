---------------------------- MODULE WiredProofs ----------------------------
(* Proofs about Wired, for every value of its constants: the types of its    *)
(* variables; and that a side opens a stream once, and writes at most one    *)
(* Drop frame for it.                                                        *)
EXTENDS Wired, SequenceTheorems, TLAPS

LEMMA Bounds ==
  MaxEvents \in Nat /\ MaxChans \in Nat /\ MaxStreams \in Nat /\ MaxMessages \in Nat
  BY BoundsAssumption

-----------------------------------------------------------------------------
(* Type correctness.                                                        *)

\* A send on a queue keeps the type of all queues.
LEMMA PushedType ==
  ASSUME NEW S, NEW q \in [Side -> Seq(S)], NEW state, NEW s \in Side, NEW e \in S
  PROVE  Pushed(q, state, s, e) \in [Side -> Seq(S)]
  BY DEF Pushed

\* So does a receive.
LEMMA PoppedType ==
  ASSUME NEW S, NEW q \in [Side -> Seq(S)], NEW s \in Side, q[s] # <<>>
  PROVE  /\ [q EXCEPT ![s] = Tail(@)] \in [Side -> Seq(S)]
         /\ Head(q[s]) \in S
  OBVIOUS

LEMMA EventTypes ==
  /\ None \in WiredEvent /\ None \in UnwiredEvent /\ EventFrame \in WiringEvent
  /\ \A k \in Key : /\ Register(k) \in WiredEvent /\ Register(k) \in UnwiredEvent
                     /\ Message(k) \in WiredEvent /\ DropFrame(k) \in WiringEvent
                     /\ \A b \in BOOLEAN : Drop(k, b) \in WiredEvent /\ Drop(k, b) \in UnwiredEvent
                     /\ \A n \in Nat \ {0} : Data(k, n) \in UnwiredEvent /\ Data(k, n) \in WiringEvent
                     /\ Mirror(k) \in Key
  /\ \A n \in 0..MaxChans : Event(n) \in WiredEvent
  /\ \A id \in WireId : OpenFrame(id) \in WiringEvent /\ Local(id) \in Key /\ Remote(id) \in Key
  BY Bounds DEF None, Register, Message, DropFrame, Drop, Data, Event, OpenFrame, EventFrame, WiredEvent,
         UnwiredEvent, WiringEvent, Mirror, Local, Remote, Key

LEMMA WriteType ==
  ASSUME net \in [Side -> Seq(WiringEvent)],
         wstate \in [Side -> {"open", "closed", "done"}],
         NEW s \in Side, NEW f \in WiringEvent, Write(s, f)
  PROVE  /\ net' \in [Side -> Seq(WiringEvent)]
         /\ wstate' \in [Side -> {"open", "closed", "done"}]
  <1>1. CASE ~Down(s) /\ net' = [net EXCEPT ![s] = Append(@, f)] /\ UNCHANGED wstate
    BY <1>1
  <1>2. CASE UNCHANGED <<net, wstate>>
    BY <1>2
  <1>3. CASE wstate' = [wstate EXCEPT ![s] = "closed"] /\ UNCHANGED net
    BY <1>3
  <1> QED BY <1>1, <1>2, <1>3 DEF Write

\* The channels of the streams keep their type when a message comes or goes.
LEMMA ChannelType ==
  ASSUME NEW f \in [Side -> [Key -> Seq(Nat \ {0})]], NEW s \in Side, NEW k \in Key
  PROVE  /\ \A n \in Nat \ {0} :
              [f EXCEPT ![s][k] = Append(@, n)] \in [Side -> [Key -> Seq(Nat \ {0})]]
         /\ f[s][k] # <<>> =>
              /\ Head(f[s][k]) \in Nat \ {0}
              /\ [f EXCEPT ![s][k] = Tail(@)] \in [Side -> [Key -> Seq(Nat \ {0})]]
         /\ [f EXCEPT ![s][k] = <<>>] \in [Side -> [Key -> Seq(Nat \ {0})]]
         /\ [f EXCEPT ![s] = [x \in Key |-> <<>>]] \in [Side -> [Key -> Seq(Nat \ {0})]]
  <1>1. ASSUME NEW n \in Nat \ {0}
        PROVE [f EXCEPT ![s][k] = Append(@, n)] \in [Side -> [Key -> Seq(Nat \ {0})]]
    <2>1. Append(f[s][k], n) \in Seq(Nat \ {0})
      OBVIOUS
    <2> QED BY <2>1
  <1>2. ASSUME f[s][k] # <<>>
        PROVE /\ Head(f[s][k]) \in Nat \ {0}
              /\ [f EXCEPT ![s][k] = Tail(@)] \in [Side -> [Key -> Seq(Nat \ {0})]]
    <2>1. Tail(f[s][k]) \in Seq(Nat \ {0}) /\ Head(f[s][k]) \in Nat \ {0}
      BY <1>2
    <2> QED BY <2>1
  <1>3. <<>> \in Seq(Nat \ {0})
    OBVIOUS
  <1> QED BY <1>1, <1>2, <1>3

\* What the tasks find at the head of their queues.
LEMMA HeadW ==
  ASSUME TypeOK, NEW s \in Side, NEW t, WiredAt(s, t)
  PROVE  /\ wq[s] \in Seq(WiredEvent) /\ wq[s] # <<>> /\ Head(wq[s]) = wq[s][1]
         /\ Head(wq[s]) \in WiredEvent /\ Head(wq[s]).t = t
         /\ t \in {"register", "message", "drop"} => Head(wq[s]).k \in Key
         /\ t = "drop" => Head(wq[s]) = Drop(Head(wq[s]).k, Head(wq[s]).broadcast)
                           /\ Head(wq[s]).broadcast \in BOOLEAN
         /\ t = "event" => Head(wq[s]).chans \in 0..MaxChans
  <1>1. wq \in [Side -> Seq(WiredEvent)] /\ wq[s] # <<>> /\ Head(wq[s]).t = t
    BY DEF TypeOK, WiredAt
  <1>2. /\ wq[s] \in Seq(WiredEvent) /\ Head(wq[s]) = wq[s][1]
        /\ Head(wq[s]) \in WiredEvent
    BY <1>1
  <1> QED BY <1>1, <1>2 DEF WiredEvent, None, Drop

LEMMA HeadU ==
  ASSUME TypeOK, NEW s \in Side, NEW t, HelperAt(s, t)
  PROVE  /\ uq[s] # <<>> /\ Head(uq[s]) \in UnwiredEvent /\ Head(uq[s]).t = t
         /\ t \in {"register", "data", "drop"} => Head(uq[s]).k \in Key
         /\ t = "drop" => Head(uq[s]).broadcast \in BOOLEAN
         /\ t = "data" => Head(uq[s]).n \in Nat \ {0}
         /\ uq' \in [Side -> Seq(UnwiredEvent)]
  <1>1. uq \in [Side -> Seq(UnwiredEvent)] /\ uq[s] # <<>> /\ Head(uq[s]).t = t
    BY DEF TypeOK, HelperAt
  <1>2. Head(uq[s]) \in UnwiredEvent /\ [uq EXCEPT ![s] = Tail(@)] \in [Side -> Seq(UnwiredEvent)]
    BY <1>1, PoppedType
  <1> QED BY <1>1, <1>2 DEF HelperAt, UnwiredEvent, None

LEMMA HeadNet ==
  ASSUME TypeOK, NEW s \in Side, NEW t, Reading(s, t)
  PROVE  /\ net[Peer(s)] # <<>> /\ Head(net[Peer(s)]) \in WiringEvent
         /\ Head(net[Peer(s)]).t = t
         /\ t \in {"data", "drop"} => Head(net[Peer(s)]).k \in Key
         /\ t = "data" => Head(net[Peer(s)]) \in UnwiredEvent
         /\ t = "open" => Head(net[Peer(s)]).id \in WireId
         /\ net' \in [Side -> Seq(WiringEvent)]
  <1>1. Peer(s) \in Side
    BY DEF Peer, Side
  <1>2. /\ net \in [Side -> Seq(WiringEvent)] /\ net[Peer(s)] # <<>>
        /\ Head(net[Peer(s)]).t = t
    BY DEF TypeOK, Reading
  <1>3. /\ Head(net[Peer(s)]) \in WiringEvent
        /\ [net EXCEPT ![Peer(s)] = Tail(@)] \in [Side -> Seq(WiringEvent)]
    BY <1>1, <1>2, PoppedType
  <1> QED BY <1>2, <1>3 DEF Reading, WiringEvent, UnwiredEvent, EventFrame

\* The id that connect() allots next.
LEMMA NextIdType ==
  ASSUME TypeOK, NEW s \in Side, nextId[s] < MaxStreams
  PROVE  /\ nextId[s] + 1 \in WireId /\ nextId[s] + 1 \in 0..MaxStreams
         /\ Local(nextId[s] + 1) \in Key
  <1>1. nextId[s] \in 0..MaxStreams
    BY DEF TypeOK
  <1>2. nextId[s] + 1 \in WireId /\ nextId[s] + 1 \in 0..MaxStreams
    BY <1>1, Bounds DEF WireId
  <1> QED BY <1>2 DEF Local, Key

\* Every step of the wired task keeps the types.
LEMMA TypeWired ==
  ASSUME TypeOK, NEW s \in Side, WiredStep(s)
  PROVE  TypeOK'
  <1> USE DEF wiredVars, helperVars, netVars, halfVars
  <1>1. CASE WiredNone(s)
    <2>1. wq' \in [Side -> Seq(WiredEvent)]
      BY <1>1, HeadW, PoppedType DEF WiredNone, WiredAt, PopW, TypeOK
    <2>2. wstate' \in [Side -> {"open", "closed", "done"}]
      BY <1>1 DEF WiredNone, TypeOK
    <2> QED BY <1>1, <2>1, <2>2 DEF WiredNone, TypeOK
  <1>2. CASE WiredConnect(s)
    <2>1. nextId[s] + 1 \in WireId /\ Local(nextId[s] + 1) \in Key
      <3>1. nextId[s] < MaxStreams
        BY <1>2 DEF WiredConnect
      <3> QED BY <3>1, NextIdType
    <2>2. wq[s][1] \in WiredEvent /\ wq[s][1].t = "event" /\ wq[s][1].chans \in 1..MaxChans
      <3>1. WiredAt(s, "event") /\ Head(wq[s]).chans > 0
        BY <1>2 DEF WiredConnect
      <3>2. /\ Head(wq[s]) = wq[s][1] /\ Head(wq[s]) \in WiredEvent
            /\ Head(wq[s]).t = "event" /\ Head(wq[s]).chans \in 0..MaxChans
        BY <3>1, HeadW
      <3> QED BY <3>1, <3>2, Bounds
    <2>3. [wq[s][1] EXCEPT !.chans = @ - 1] \in WiredEvent
      <3>1. wq[s][1] \in [t : {"event"}, chans : 0..MaxChans]
        BY <2>2 DEF WiredEvent, None
      <3>2. wq[s][1].chans - 1 \in 0..MaxChans
        BY <2>2, Bounds
      <3> QED BY <3>1, <3>2 DEF WiredEvent
    <2>4. wq[s] \in Seq(WiredEvent) /\ wq[s] # <<>>
      BY <1>2 DEF WiredConnect, WiredAt, TypeOK
    <2>5. [wq[s] EXCEPT ![1].chans = @ - 1] \in Seq(WiredEvent)
      BY <1>2, <2>3, <2>4 DEF WiredConnect, TypeOK
    <2>6. wq' \in [Side -> Seq(WiredEvent)]
      BY <1>2, <2>1, <2>2, <2>3, <2>4, <2>5 DEF WiredConnect, TypeOK
    <2>7. nextId' \in [Side -> 0..MaxStreams]
      BY <1>2, NextIdType DEF WiredConnect, Connected, TypeOK
    <2>8. wired' \in [Side -> SUBSET Key]
      BY <1>2, <2>1, <2>2, <2>3, <2>4, <2>5 DEF WiredConnect, Connected, TypeOK
    <2>9. uq' \in [Side -> Seq(UnwiredEvent)]
      BY <1>2, <2>1, <2>2, <2>3, <2>4, <2>5, EventTypes, PushedType DEF WiredConnect, Connected, PushU, TypeOK
    <2>10. net' \in [Side -> Seq(WiringEvent)]
      <3>1. OpenFrame(nextId[s] + 1) \in WiringEvent /\ net \in [Side -> Seq(WiringEvent)]
        BY <2>1, EventTypes DEF TypeOK
      <3>2. \/ net' = net
            \/ net' = [net EXCEPT ![s] = Append(@, OpenFrame(nextId[s] + 1))]
        BY <1>2 DEF WiredConnect
      <3>3. Append(net[s], OpenFrame(nextId[s] + 1)) \in Seq(WiringEvent)
        BY <3>1
      <3> QED BY <3>1, <3>2, <3>3
    <2>11. wh' \in [Side -> [Key -> {"none", "open", "shut", "dropped"}]]
      BY <1>2, <2>1, <2>2, <2>3, <2>4, <2>5 DEF WiredConnect, TypeOK
    <2>12. rh' \in [Side -> [Key -> {"none", "open", "dropped"}]]
      BY <1>2, <2>1, <2>2, <2>3, <2>4, <2>5 DEF WiredConnect, TypeOK
    <2> QED BY <1>2, <2>1, <2>2, <2>3, <2>4, <2>5, <2>6, <2>7, <2>8, <2>9, <2>10, <2>11, <2>12 DEF WiredConnect, TypeOK
  <1>3. CASE WiredConnectFails(s)
    <2>1. nextId[s] + 1 \in WireId /\ Local(nextId[s] + 1) \in Key
      <3>1. nextId[s] < MaxStreams
        BY <1>3 DEF WiredConnectFails
      <3> QED BY <3>1, NextIdType
    <2>2. [wq EXCEPT ![s] = Tail(@)] \in [Side -> Seq(WiredEvent)]
      BY <1>3, PoppedType DEF WiredConnectFails, WiredAt, TypeOK
    <2>3. wq' \in [Side -> Seq(WiredEvent)]
      BY <1>3, <2>1, <2>2, EventTypes, PushedType DEF WiredConnectFails, TypeOK
    <2>4. wstate' \in [Side -> {"open", "closed", "done"}]
      BY <1>3, <2>1, <2>2 DEF WiredConnectFails, TypeOK
    <2>5. nextId' \in [Side -> 0..MaxStreams]
      BY <1>3, NextIdType DEF WiredConnectFails, Connected, TypeOK
    <2>6. wired' \in [Side -> SUBSET Key]
      <3>1. wired \in [Side -> SUBSET Key]
        BY DEF TypeOK
      <3>2. wired' = [wired EXCEPT ![s] = @ \cup {Local(nextId[s] + 1)}]
        BY <1>3 DEF WiredConnectFails, Connected
      <3> QED BY <2>1, <3>1, <3>2
    <2>7. uq' \in [Side -> Seq(UnwiredEvent)]
      BY <1>3, <2>1, <2>2, EventTypes, PushedType DEF WiredConnectFails, Connected, PushU, TypeOK
    <2>8. wh' \in [Side -> [Key -> {"none", "open", "shut", "dropped"}]]
      BY <1>3, <2>1, <2>2 DEF WiredConnectFails, TypeOK
    <2>9. rh' \in [Side -> [Key -> {"none", "open", "dropped"}]]
      BY <1>3, <2>1, <2>2 DEF WiredConnectFails, TypeOK
    <2> QED BY <1>3, <2>1, <2>2, <2>3, <2>4, <2>5, <2>6, <2>7, <2>8, <2>9 DEF WiredConnectFails, TypeOK
  <1>4. CASE WiredEventFails(s)
    <2>1. wq' \in [Side -> Seq(WiredEvent)]
      BY <1>4, HeadW, PoppedType DEF WiredEventFails, WiredAt, PopW, TypeOK
    <2>2. wstate' \in [Side -> {"open", "closed", "done"}]
      BY <1>4 DEF WiredEventFails, TypeOK
    <2> QED BY <1>4, <2>1, <2>2 DEF WiredEventFails, TypeOK
  <1>5. CASE WiredEventDone(s)
    <2>1. wq' \in [Side -> Seq(WiredEvent)]
      BY <1>5, HeadW, PoppedType DEF WiredEventDone, WiredAt, PopW, TypeOK
    <2>2. /\ net' \in [Side -> Seq(WiringEvent)]
          /\ wstate' \in [Side -> {"open", "closed", "done"}]
      BY <1>5, EventTypes, WriteType DEF WiredEventDone, TypeOK
    <2> QED BY <1>5, <2>1, <2>2 DEF WiredEventDone, TypeOK
  <1>6. CASE WiredRegister(s)
    <2>1. Head(wq[s]).k \in Key
      BY <1>6, HeadW DEF WiredRegister, TypeOK
    <2>2. wq' \in [Side -> Seq(WiredEvent)]
      BY <1>6, <2>1, HeadW, PoppedType DEF WiredRegister, WiredAt, PopW, TypeOK
    <2>3. wired' \in [Side -> SUBSET Key]
      BY <1>6, <2>1 DEF WiredRegister, TypeOK
    <2> QED BY <1>6, <2>1, <2>2, <2>3 DEF WiredRegister, TypeOK
  <1>7. CASE WiredMessage(s)
    <2>1. Head(wq[s]).k \in Key
      BY <1>7, HeadW DEF WiredMessage, TypeOK
    <2>2. wq' \in [Side -> Seq(WiredEvent)]
      BY <1>7, <2>1, HeadW, PoppedType DEF WiredMessage, WiredAt, PopW, TypeOK
    <2>3. wbuf' \in [Side -> [Key -> Seq(Nat \ {0})]]
      <3>1. wbuf \in [Side -> [Key -> Seq(Nat \ {0})]]
        BY DEF TypeOK
      <3>2. CASE Head(wq[s]).k \in wired[s] /\ wbuf[s][Head(wq[s]).k] # <<>>
        <4>1. wbuf' = [wbuf EXCEPT ![s][Head(wq[s]).k] = Tail(@)]
          BY <1>7, <3>2 DEF WiredMessage
        <4> QED BY <2>1, <3>1, <3>2, <4>1, ChannelType
      <3>3. CASE ~(Head(wq[s]).k \in wired[s] /\ wbuf[s][Head(wq[s]).k] # <<>>)
        BY <1>7, <3>1, <3>3 DEF WiredMessage
      <3> QED BY <3>2, <3>3
    <2>4. /\ net' \in [Side -> Seq(WiringEvent)]
          /\ wstate' \in [Side -> {"open", "closed", "done"}]
      <3>1. CASE Head(wq[s]).k \in wired[s] /\ wbuf[s][Head(wq[s]).k] # <<>>
        <4>1. Head(wbuf[s][Head(wq[s]).k]) \in Nat \ {0} /\ Mirror(Head(wq[s]).k) \in Key
          <5>1. wbuf \in [Side -> [Key -> Seq(Nat \ {0})]]
            BY DEF TypeOK
          <5>2. Head(wbuf[s][Head(wq[s]).k]) \in Nat \ {0}
            BY <2>1, <3>1, <5>1, ChannelType
          <5> QED BY <2>1, <5>2, EventTypes
        <4>2. Data(Mirror(Head(wq[s]).k), Head(wbuf[s][Head(wq[s]).k])) \in WiringEvent
          BY <4>1, EventTypes
        <4> QED BY <1>7, <3>1, <4>2, WriteType DEF WiredMessage, TypeOK
      <3>2. CASE ~(Head(wq[s]).k \in wired[s] /\ wbuf[s][Head(wq[s]).k] # <<>>)
        BY <1>7, <3>2 DEF WiredMessage, TypeOK
      <3> QED BY <3>1, <3>2
    <2> QED BY <1>7, <2>1, <2>2, <2>3, <2>4 DEF WiredMessage, TypeOK
  <1>8. CASE WiredDrop(s)
    <2> DEFINE e == Head(wq[s])
    <2>1. /\ e.k \in Key /\ e.broadcast \in BOOLEAN
          /\ wq[s] # <<>> /\ Mirror(e.k) \in Key
      <3>1. WiredAt(s, "drop")
        BY <1>8 DEF WiredDrop
      <3> QED BY <3>1, HeadW, EventTypes
    <2>2. wq' \in [Side -> Seq(WiredEvent)]
      BY <1>8, <2>1, PoppedType DEF WiredDrop, PopW, TypeOK
    <2>3. CASE e.k \notin wired[s]
      <3>1. UNCHANGED <<wired, wbuf, wstate, net, drops, uq>>
        BY <1>8, <2>3 DEF WiredDrop
      <3> QED BY <1>8, <2>2, <3>1 DEF WiredDrop, TypeOK
    <2>4. CASE e.k \in wired[s]
      <3>1. Dropped(s, e) /\ PushU(s, Drop(e.k, FALSE))
        BY <1>8, <2>4 DEF WiredDrop
      <3>2. wired' \in [Side -> SUBSET Key]
        BY <3>1 DEF Dropped, TypeOK
      <3>3. wbuf' \in [Side -> [Key -> Seq(Nat \ {0})]]
        <4>1. wbuf \in [Side -> [Key -> Seq(Nat \ {0})]]
          BY DEF TypeOK
        <4>2. wbuf' = [wbuf EXCEPT ![s][e.k] = <<>>]
          BY <3>1 DEF Dropped
        <4> QED BY <2>1, <4>1, <4>2, ChannelType
      <3>4. /\ net' \in [Side -> Seq(WiringEvent)]
            /\ wstate' \in [Side -> {"open", "closed", "done"}]
            /\ drops' \in [Side -> [Key -> Nat]]
        <4>1. CASE e.broadcast
          <5>1. /\ Write(s, DropFrame(Mirror(e.k)))
                /\ drops' = [drops EXCEPT ![s][e.k] = @ + 1]
            BY <3>1, <4>1 DEF Dropped
          <5>2. DropFrame(Mirror(e.k)) \in WiringEvent
            BY <2>1, EventTypes
          <5>3. drops' \in [Side -> [Key -> Nat]]
            <6>1. drops \in [Side -> [Key -> Nat]]
              BY DEF TypeOK
            <6> HIDE DEF e
            <6> QED BY <2>1, <5>1, <6>1
          <5> QED BY <5>1, <5>2, <5>3, WriteType DEF TypeOK
        <4>2. CASE ~e.broadcast
          BY <3>1, <4>2 DEF Dropped, TypeOK
        <4> QED BY <4>1, <4>2
      <3>5. uq' \in [Side -> Seq(UnwiredEvent)]
        <4>1. Drop(e.k, FALSE) \in UnwiredEvent
          BY <2>1, EventTypes
        <4> QED BY <3>1, <4>1, PushedType DEF PushU, TypeOK
      <3> QED BY <1>8, <2>2, <3>2, <3>3, <3>4, <3>5 DEF WiredDrop, TypeOK
    <2> QED BY <2>3, <2>4
  <1>9. CASE WiredEnd(s)
    <2>1. <<>> \in Seq(Nat \ {0})
      BY <1>9 DEF WiredEnd, TypeOK
    <2>2. wstate' \in [Side -> {"open", "closed", "done"}]
      BY <1>9, <2>1 DEF WiredEnd, TypeOK
    <2>3. wired' \in [Side -> SUBSET Key]
      BY <1>9, <2>1 DEF WiredEnd, TypeOK
    <2>4. wbuf' \in [Side -> [Key -> Seq(Nat \ {0})]]
      BY <1>9, <2>1 DEF WiredEnd, TypeOK
    <2> QED BY <1>9, <2>1, <2>2, <2>3, <2>4 DEF WiredEnd, TypeOK
  <1> QED BY <1>1, <1>2, <1>3, <1>4, <1>5, <1>6, <1>7, <1>8, <1>9 DEF WiredStep

\* Every step of the reader task does.
LEMMA TypeReader ==
  ASSUME TypeOK, NEW s \in Side, ReaderStep(s)
  PROVE  TypeOK'
  <1> USE DEF wiredVars, helperVars, netVars, halfVars
  <1>1. CASE ReadOpen(s)
    <2>1. Head(net[Peer(s)]).id \in WireId /\ Remote(Head(net[Peer(s)]).id) \in Key
      BY <1>1, HeadNet, EventTypes DEF ReadOpen, TypeOK
    <2>2. wq' \in [Side -> Seq(WiredEvent)]
      BY <1>1, <2>1, EventTypes, PushedType DEF ReadOpen, PushW, TypeOK
    <2>3. uq' \in [Side -> Seq(UnwiredEvent)]
      BY <1>1, <2>1, EventTypes, PushedType DEF ReadOpen, PushU, TypeOK
    <2>4. net' \in [Side -> Seq(WiringEvent)]
      BY <1>1, <2>1, HeadNet DEF ReadOpen, TypeOK
    <2>5. wh' \in [Side -> [Key -> {"none", "open", "shut", "dropped"}]]
      BY <1>1, <2>1 DEF ReadOpen, TypeOK
    <2>6. rh' \in [Side -> [Key -> {"none", "open", "dropped"}]]
      BY <1>1, <2>1 DEF ReadOpen, TypeOK
    <2> QED BY <1>1, <2>1, <2>2, <2>3, <2>4, <2>5, <2>6 DEF ReadOpen, TypeOK
  <1>2. CASE ReadEvent(s)
    <2>1. net' \in [Side -> Seq(WiringEvent)]
      BY <1>2, HeadNet DEF ReadEvent, TypeOK
    <2>2. evHandled' \in [Side -> Nat]
      BY <1>2 DEF ReadEvent, TypeOK
    <2> QED BY <1>2, <2>1, <2>2 DEF ReadEvent, TypeOK
  <1>3. CASE ReadMessage(s)
    <2>1. Head(net[Peer(s)]) \in UnwiredEvent
      BY <1>3, HeadNet DEF ReadMessage, TypeOK
    <2>2. net' \in [Side -> Seq(WiringEvent)]
      BY <1>3, <2>1, HeadNet DEF ReadMessage, TypeOK
    <2>3. uq' \in [Side -> Seq(UnwiredEvent)]
      BY <1>3, <2>1, EventTypes, PushedType DEF ReadMessage, PushU, TypeOK
    <2> QED BY <1>3, <2>1, <2>2, <2>3 DEF ReadMessage, TypeOK
  <1>4. CASE ReadDrop(s)
    <2>1. Head(net[Peer(s)]).k \in Key
      BY <1>4, HeadNet DEF ReadDrop, TypeOK
    <2>2. net' \in [Side -> Seq(WiringEvent)]
      BY <1>4, <2>1, HeadNet DEF ReadDrop, TypeOK
    <2>3. uq' \in [Side -> Seq(UnwiredEvent)]
      BY <1>4, <2>1, EventTypes, PushedType DEF ReadDrop, PushU, TypeOK
    <2> QED BY <1>4, <2>1, <2>2, <2>3 DEF ReadDrop, TypeOK
  <1>5. CASE ReadEnd(s)
    <2>1. uq' \in [Side -> Seq(UnwiredEvent)]
      BY <1>5, EventTypes, PushedType DEF ReadEnd, PushU, TypeOK
    <2>2. reader' \in [Side -> {"run", "join", "done"}]
      BY <1>5 DEF ReadEnd, TypeOK
    <2> QED BY <1>5, <2>1, <2>2 DEF ReadEnd, TypeOK
  <1>6. CASE ReadJoin(s)
    <2>1. wq' \in [Side -> Seq(WiredEvent)]
      BY <1>6, EventTypes, PushedType DEF ReadJoin, PushW, TypeOK
    <2>2. reader' \in [Side -> {"run", "join", "done"}]
      BY <1>6 DEF ReadJoin, TypeOK
    <2> QED BY <1>6, <2>1, <2>2 DEF ReadJoin, TypeOK
  <1> QED BY <1>1, <1>2, <1>3, <1>4, <1>5, <1>6 DEF ReaderStep

\* Every step of the helper task does.
LEMMA TypeHelper ==
  ASSUME TypeOK, NEW s \in Side, HelperStep(s)
  PROVE  TypeOK'
  <1> USE DEF wiredVars, helperVars, netVars, halfVars
  <1>1. CASE HelperMessage(s)
    <2>1. Head(uq[s]).k \in Key /\ Head(uq[s]).n \in Nat \ {0}
      BY <1>1, HeadU DEF HelperMessage, TypeOK
    <2>2. uq' \in [Side -> Seq(UnwiredEvent)]
      BY <1>1, <2>1, HeadU DEF HelperMessage, TypeOK
    <2>3. arr' \in [Side -> [Key -> Seq(Nat \ {0})]]
      BY <1>1, <2>1, ChannelType DEF HelperMessage, TypeOK
    <2> QED BY <1>1, <2>1, <2>2, <2>3 DEF HelperMessage, TypeOK
  <1>2. CASE HelperRegister(s)
    <2>1. Head(uq[s]).k \in Key
      BY <1>2, HeadU DEF HelperRegister, TypeOK
    <2>2. uq' \in [Side -> Seq(UnwiredEvent)]
      BY <1>2, <2>1, HeadU DEF HelperRegister, TypeOK
    <2>3. helper' \in [Side -> SUBSET Key]
      BY <1>2, <2>1 DEF HelperRegister, TypeOK
    <2> QED BY <1>2, <2>1, <2>2, <2>3 DEF HelperRegister, TypeOK
  <1>3. CASE HelperDrop(s)
    <2>1. Head(uq[s]).k \in Key
      BY <1>3, HeadU DEF HelperDrop, TypeOK
    <2>2. uq' \in [Side -> Seq(UnwiredEvent)]
      BY <1>3, <2>1, HeadU DEF HelperDrop, TypeOK
    <2>3. helper' \in [Side -> SUBSET Key]
      BY <1>3, <2>1 DEF HelperDrop, TypeOK
    <2>4. wq' \in [Side -> Seq(WiredEvent)]
      <3>1. Drop(Head(uq[s]).k, FALSE) \in WiredEvent /\ wq \in [Side -> Seq(WiredEvent)]
        BY <2>1, EventTypes DEF TypeOK
      <3>2. wq' = Pushed(wq, wstate, s, Drop(Head(uq[s]).k, FALSE)) \/ wq' = wq
        BY <1>3 DEF HelperDrop, PushW
      <3>3. Pushed(wq, wstate, s, Drop(Head(uq[s]).k, FALSE)) \in [Side -> Seq(WiredEvent)]
        BY <3>1, PushedType
      <3> QED BY <3>1, <3>2, <3>3
    <2> QED BY <1>3, <2>1, <2>2, <2>3, <2>4 DEF HelperDrop, TypeOK
  <1>4. CASE HelperNone(s)
    <2>1. uq' \in [Side -> Seq(UnwiredEvent)]
      BY <1>4, HeadU DEF HelperNone, TypeOK
    <2>2. ustate' \in [Side -> {"open", "closed", "done"}]
      BY <1>4 DEF HelperNone, TypeOK
    <2> QED BY <1>4, <2>1, <2>2 DEF HelperNone, TypeOK
  <1>5. CASE HelperEnd(s)
    <2>1. ustate' \in [Side -> {"open", "closed", "done"}]
      BY <1>5 DEF HelperEnd, TypeOK
    <2>2. helper' \in [Side -> SUBSET Key]
      BY <1>5 DEF HelperEnd, TypeOK
    <2> QED BY <1>5, <2>1, <2>2 DEF HelperEnd, TypeOK
  <1> QED BY <1>1, <1>2, <1>3, <1>4, <1>5 DEF HelperStep

\* Every step of an application on one of its streams does.
LEMMA TypeHalf ==
  ASSUME TypeOK, NEW s \in Side, NEW k \in Key, HalfStep(s, k)
  PROVE  TypeOK'
  <1> USE DEF wiredVars, helperVars, netVars, halfVars
  <1>1. CASE FlushBegin(s, k)
    <2>1. flushed' \in [Side -> [Key -> Nat]]
      <3>1. flushed \in [Side -> [Key -> Nat]]
        BY DEF TypeOK
      <3> QED BY <1>1, <3>1 DEF FlushBegin
    <2>2. pend' \in [Side -> [Key -> BOOLEAN]]
      BY <1>1 DEF FlushBegin, TypeOK
    <2>3. wq' \in [Side -> Seq(WiredEvent)]
      BY <1>1 DEF FlushBegin, FlushSend, SendData, TypeOK
    <2>4. wbuf' \in [Side -> [Key -> Seq(Nat \ {0})]]
      <3>1. flushed'[s][k] \in Nat \ {0} /\ wbuf \in [Side -> [Key -> Seq(Nat \ {0})]]
        BY <1>1 DEF FlushBegin, TypeOK
      <3>2. wbuf' = [wbuf EXCEPT ![s][k] = Append(@, flushed'[s][k])]
        BY <1>1 DEF FlushBegin, FlushSend, SendData
      <3> QED BY <3>1, <3>2, ChannelType
    <2> QED BY <1>1, <2>1, <2>2, <2>3, <2>4 DEF FlushBegin, TypeOK
  <1>2. CASE FlushEnd(s, k)
    <2>1. pend' \in [Side -> [Key -> BOOLEAN]]
      BY <1>2 DEF FlushEnd, TypeOK
    <2>2. wq' \in [Side -> Seq(WiredEvent)]
      <3>1. Message(k) \in WiredEvent /\ wq \in [Side -> Seq(WiredEvent)]
        BY EventTypes DEF TypeOK
      <3>2. wq' = Pushed(wq, wstate, s, Message(k))
        BY <1>2 DEF FlushEnd, FlushSend, SendEvent, PushW
      <3> QED BY <3>1, <3>2, PushedType
    <2>3. wbuf' \in [Side -> [Key -> Seq(Nat \ {0})]]
      BY <1>2 DEF FlushEnd, FlushSend, SendEvent, TypeOK
    <2> QED BY <1>2, <2>1, <2>2, <2>3 DEF FlushEnd, TypeOK
  <1>3. CASE ShutWrite(s, k)
    <2>1. wq' \in [Side -> Seq(WiredEvent)]
      BY <1>3, EventTypes, PushedType DEF ShutWrite, PushW, TypeOK
    <2>2. wh' \in [Side -> [Key -> {"none", "open", "shut", "dropped"}]]
      BY <1>3 DEF ShutWrite, TypeOK
    <2> QED BY <1>3, <2>1, <2>2 DEF ShutWrite, TypeOK
  <1>4. CASE DropWrite(s, k)
    <2>1. wq' \in [Side -> Seq(WiredEvent)]
      BY <1>4, EventTypes, PushedType DEF DropWrite, PushW, TypeOK
    <2>2. wh' \in [Side -> [Key -> {"none", "open", "shut", "dropped"}]]
      BY <1>4 DEF DropWrite, TypeOK
    <2> QED BY <1>4, <2>1, <2>2 DEF DropWrite, TypeOK
  <1>5. CASE DropRead(s, k)
    <2>1. wq' \in [Side -> Seq(WiredEvent)]
      BY <1>5, EventTypes, PushedType DEF DropRead, PushW, TypeOK
    <2>2. rh' \in [Side -> [Key -> {"none", "open", "dropped"}]]
      BY <1>5 DEF DropRead, TypeOK
    <2> QED BY <1>5, <2>1, <2>2 DEF DropRead, TypeOK
  <1>6. CASE PollRead(s, k)
    <2>1. cur' \in [Side -> [Key -> 0..1]]
      BY <1>6 DEF PollRead, TypeOK
    <2> QED BY <1>6, <2>1 DEF PollRead, TypeOK
  <1>7. CASE PollReadEof(s, k)
    <2>1. eof' \in [Side -> [Key -> BOOLEAN]]
      BY <1>7 DEF PollReadEof, TypeOK
    <2> QED BY <1>7, <2>1 DEF PollReadEof, TypeOK
  <1> QED BY <1>1, <1>2, <1>3, <1>4, <1>5, <1>6, <1>7 DEF HalfStep

\* So does every other step of an application.
LEMMA TypeApp ==
  ASSUME TypeOK, NEW s \in Side, AppStep(s)
  PROVE  TypeOK'
  <1> USE DEF wiredVars, helperVars, netVars, halfVars
  <1>1. CASE SendNone(s) \/ Shutdown(s)
    <2>1. /\ PushW(s, None) /\ \E h \in {"ending", "shutdown"} : handle' = [handle EXCEPT ![s] = h]
          /\ UNCHANGED <<wstate, nextId, wired, wbuf, helperVars, reader, netVars, halfVars,
                         arr, evSent, evHandled, drops>>
      BY <1>1 DEF SendNone, Shutdown
    <2>2. wq' \in [Side -> Seq(WiredEvent)]
      BY <2>1, EventTypes, PushedType DEF PushW, TypeOK
    <2>3. handle' \in [Side -> {"held", "ending", "shutdown", "dropped"}]
      BY <2>1 DEF TypeOK
    <2> QED BY <2>1, <2>2, <2>3 DEF TypeOK
  <1>2. CASE Abort(s)
    <2>1. <<>> \in Seq(Nat \ {0}) /\ <<>> \in Seq(WiredEvent)
      BY <1>2 DEF Abort, TypeOK
    <2>2. handle' \in [Side -> {"held", "ending", "shutdown", "dropped"}]
      BY <1>2, <2>1 DEF Abort, TypeOK
    <2>3. wstate' \in [Side -> {"open", "closed", "done"}]
      BY <1>2, <2>1 DEF Abort, TypeOK
    <2>4. wq' \in [Side -> Seq(WiredEvent)]
      BY <1>2, <2>1 DEF Abort, TypeOK
    <2>5. wired' \in [Side -> SUBSET Key]
      BY <1>2, <2>1 DEF Abort, TypeOK
    <2>6. wbuf' \in [Side -> [Key -> Seq(Nat \ {0})]]
      BY <1>2, <2>1 DEF Abort, TypeOK
    <2>7. reader' \in [Side -> {"run", "join", "done"}]
      BY <1>2, <2>1 DEF Abort, TypeOK
    <2> QED BY <1>2, <2>1, <2>2, <2>3, <2>4, <2>5, <2>6, <2>7 DEF Abort, TypeOK
  <1>3. CASE AbandonShutdown(s)
    <2>1. handle' \in [Side -> {"held", "ending", "shutdown", "dropped"}]
      BY <1>3 DEF AbandonShutdown, TypeOK
    <2>2. reader' \in [Side -> {"run", "join", "done"}]
      BY <1>3 DEF AbandonShutdown, TypeOK
    <2> QED BY <1>3, <2>1, <2>2 DEF AbandonShutdown, TypeOK
  <1>4. ASSUME NEW n \in 0..MaxChans, Send(s, n) PROVE TypeOK'
    <2>1. wq' \in [Side -> Seq(WiredEvent)]
      BY <1>4, EventTypes, PushedType DEF Send, PushW, TypeOK
    <2>2. evSent' \in [Side -> Nat]
      BY <1>4 DEF Send, TypeOK
    <2> QED BY <1>4, <2>1, <2>2 DEF Send, TypeOK
  <1> QED BY <1>1, <1>2, <1>3, <1>4, TypeHalf DEF AppStep

\* The failure of the connection does.
LEMMA TypeBreak ==
  ASSUME TypeOK, Break
  PROVE  TypeOK'
  <1>1. PICK keep \in [Side -> 0..(Len(net[Client]) + Len(net[Server]))] :
          /\ \A s \in Side : keep[s] <= Len(net[s])
          /\ net' = [s \in Side |-> SubSeq(net[s], 1, keep[s])]
    BY DEF Break
  <1>2. ASSUME NEW s \in Side PROVE SubSeq(net[s], 1, keep[s]) \in Seq(WiringEvent)
    <2>1. /\ \A x \in Side : net[x] \in Seq(WiringEvent)
          /\ Client \in Side /\ Server \in Side
      BY DEF TypeOK, Side
    <2>2. Len(net[Client]) \in Nat /\ Len(net[Server]) \in Nat
      BY <2>1
    <2>3. keep[s] \in Nat /\ keep[s] <= Len(net[s])
      <3>1. keep[s] \in 0..(Len(net[Client]) + Len(net[Server])) /\ keep[s] <= Len(net[s])
        BY <1>1
      <3> QED BY <2>2, <3>1
    <2> QED BY <2>1, <2>3
  <1> QED BY <1>1, <1>2 DEF Break, TypeOK, wiredVars, helperVars, halfVars

\* TypeOK is an invariant: every queue holds only entries its task can take, and
\* no stream id is allotted beyond the bound.
THEOREM TypeCorrect == Spec => []TypeOK
  <1>1. Init => TypeOK
    <2> SUFFICES ASSUME Init PROVE TypeOK
      OBVIOUS
    <2>1. 0 \in 0..MaxStreams
      BY Bounds
    <2>2. /\ wq \in [Side -> Seq(WiredEvent)] /\ uq \in [Side -> Seq(UnwiredEvent)]
          /\ net \in [Side -> Seq(WiringEvent)]
      BY DEF Init
    <2>3. /\ wbuf \in [Side -> [Key -> Seq(Nat \ {0})]]
          /\ arr \in [Side -> [Key -> Seq(Nat \ {0})]]
      BY DEF Init, PerKey
    <2>4. /\ flushed \in [Side -> [Key -> Nat]] /\ cur \in [Side -> [Key -> 0..1]]
          /\ drops \in [Side -> [Key -> Nat]]
          /\ evSent \in [Side -> Nat] /\ evHandled \in [Side -> Nat]
      BY DEF Init, PerKey
    <2>5. /\ nextId \in [Side -> 0..MaxStreams]
          /\ wired \in [Side -> SUBSET Key] /\ helper \in [Side -> SUBSET Key]
      BY <2>1 DEF Init
    <2> QED BY <2>2, <2>3, <2>4, <2>5 DEF Init, TypeOK, PerKey
  <1>2. TypeOK /\ [Next]_vars => TypeOK'
    <2> SUFFICES ASSUME TypeOK, [Next]_vars PROVE TypeOK'
      OBVIOUS
    <2>1. CASE UNCHANGED vars
      BY <2>1 DEF vars, wiredVars, helperVars, netVars, halfVars, TypeOK
    <2> QED BY <2>1, TypeWired, TypeReader, TypeHelper, TypeApp, TypeBreak DEF Next
  <1> QED BY <1>1, <1>2, PTL DEF Spec

-----------------------------------------------------------------------------
(* Entries of queues.                                                       *)

\* From q to r no entry e is added.
NoneAdded(q, r, e) ==
  /\ Queued(r, e) => Queued(q, e)
  /\ Once(q, e) => Once(r, e)

LEMMA SameAdds == ASSUME NEW q, NEW e PROVE NoneAdded(q, q, e)
  BY DEF NoneAdded

LEMMA EmptyAdds == ASSUME NEW q, NEW e PROVE NoneAdded(q, <<>>, e)
  BY DEF NoneAdded, Queued, Once

\* Taking the head of a queue adds nothing, and takes the only copy.
LEMMA TailAdds ==
  ASSUME NEW S, NEW q \in Seq(S), q # <<>>, NEW e
  PROVE  /\ NoneAdded(q, Tail(q), e)
         /\ Queued(q, Head(q))
         /\ Once(q, Head(q)) => ~Queued(Tail(q), Head(q))
  <1>1. /\ DOMAIN q = 1..Len(q) /\ Len(q) \in Nat \ {0}
        /\ Head(q) = q[1] /\ 1 \in DOMAIN q
    OBVIOUS
  <1>2. ASSUME NEW i \in DOMAIN Tail(q)
        PROVE  i + 1 \in DOMAIN q /\ Tail(q)[i] = q[i + 1] /\ i \in Nat /\ i + 1 # 1
    OBVIOUS
  <1>3. Queued(Tail(q), e) => Queued(q, e)
    BY <1>2 DEF Queued
  <1>4. ASSUME Once(q, e) PROVE Once(Tail(q), e)
    <2> SUFFICES ASSUME NEW i \in DOMAIN Tail(q), NEW j \in DOMAIN Tail(q),
                        Tail(q)[i] = e, Tail(q)[j] = e
                 PROVE  i = j
      BY DEF Once
    <2>1. i + 1 = j + 1
      BY <1>2, <1>4 DEF Once
    <2> QED BY <1>2, <2>1
  <1>5. Queued(q, Head(q))
    BY <1>1 DEF Queued
  <1>6. ASSUME Once(q, Head(q)) PROVE ~Queued(Tail(q), Head(q))
    <2> SUFFICES ASSUME NEW i \in DOMAIN Tail(q), Tail(q)[i] = Head(q)
                 PROVE  FALSE
      BY DEF Queued
    <2>1. i + 1 = 1
      BY <1>1, <1>2, <1>6 DEF Once
    <2> QED BY <1>2, <2>1
  <1> QED BY <1>3, <1>4, <1>5, <1>6 DEF NoneAdded

\* Appending a adds nothing but a.
LEMMA AppendAdds ==
  ASSUME NEW S, NEW q \in Seq(S), NEW a \in S, NEW e
  PROVE  /\ a # e => NoneAdded(q, Append(q, a), e)
         /\ ~Queued(q, e) => Once(Append(q, a), e)
         /\ Queued(Append(q, a), e) => Queued(q, e) \/ a = e
  <1>1. ASSUME NEW i \in DOMAIN Append(q, a)
        PROVE  \/ i \in DOMAIN q /\ Append(q, a)[i] = q[i]
               \/ i = Len(q) + 1 /\ Append(q, a)[i] = a
    OBVIOUS
  <1>2. Queued(Append(q, a), e) => Queued(q, e) \/ a = e
    BY <1>1 DEF Queued
  <1>3. a # e /\ Once(q, e) => Once(Append(q, a), e)
    BY <1>1 DEF Once
  <1>4. ~Queued(q, e) => Once(Append(q, a), e)
    BY <1>1 DEF Once, Queued
  <1> QED BY <1>2, <1>3, <1>4 DEF NoneAdded

\* A prefix adds nothing.
LEMMA PrefixAdds ==
  ASSUME NEW S, NEW q \in Seq(S), NEW n \in 0..Len(q), NEW e
  PROVE  NoneAdded(q, SubSeq(q, 1, n), e)
  <1>1. ASSUME NEW i \in DOMAIN SubSeq(q, 1, n)
        PROVE  i \in DOMAIN q /\ SubSeq(q, 1, n)[i] = q[i]
    OBVIOUS
  <1> QED BY <1>1 DEF NoneAdded, Queued, Once

-----------------------------------------------------------------------------
(* What the operations of Wired add.                                        *)

LEMMA Kinds ==
  ASSUME NEW a, NEW k
  PROVE  /\ a.t # "register" => a # Register(k)
         /\ a.t # "drop" => a # Drop(k, TRUE)
         /\ a.t # "open" => a # OpenFrame(k)
  BY DEF Register, Drop, OpenFrame

LEMMA Kinds2 ==
  /\ None.t = "none" /\ EventFrame.t = "event"
  /\ \A n : Event(n).t = "event" /\ OpenFrame(n).t = "open"
  /\ \A k : /\ Register(k).t = "register" /\ Message(k).t = "message"
            /\ DropFrame(k).t = "drop"
            /\ \A b : Drop(k, b).t = "drop" /\ Drop(k, b).k = k /\ Drop(k, b).broadcast = b
            /\ \A n : Data(k, n).t = "data"
  /\ \A k, j : Register(k) = Register(j) => k = j
  /\ \A k, j : OpenFrame(k) = OpenFrame(j) => k = j
  /\ \A k, j : Drop(k, TRUE) = Drop(j, TRUE) => k = j
  <1>1. \A k, j : Register(k) = Register(j) => k = j
    <2> TAKE k, j
    <2> HAVE Register(k) = Register(j)
    <2>1. Register(k).k = k /\ Register(j).k = j
      BY DEF Register
    <2> QED BY <2>1
  <1>2. \A k, j : OpenFrame(k) = OpenFrame(j) => k = j
    <2> TAKE k, j
    <2> HAVE OpenFrame(k) = OpenFrame(j)
    <2>1. OpenFrame(k).id = k /\ OpenFrame(j).id = j
      BY DEF OpenFrame
    <2> QED BY <2>1
  <1>3. \A k, j : Drop(k, TRUE) = Drop(j, TRUE) => k = j
    <2> TAKE k, j
    <2> HAVE Drop(k, TRUE) = Drop(j, TRUE)
    <2>1. Drop(k, TRUE).k = k /\ Drop(j, TRUE).k = j
      BY DEF Drop
    <2> QED BY <2>1
  <1> QED BY <1>1, <1>2, <1>3
          DEF None, EventFrame, Event, OpenFrame, Register, Message, DropFrame, Drop, Data

\* The W queues get no registration and no Drop that is to be written.
Harmless(e) == e.t # "register" /\ \A k : e # Drop(k, TRUE)
NoEntry ==
  \A x \in Side, k \in Key :
    /\ NoneAdded(wq[x], wq'[x], Register(k))
    /\ NoneAdded(wq[x], wq'[x], Drop(k, TRUE))

\* Side x announces no id.
NoFrame == \A x \in Side, id \in WireId : NoneAdded(net[x], net'[x], OpenFrame(id))

LEMMA HarmlessEvents ==
  /\ Harmless(None)
  /\ \A n : Harmless(Event(n))
  /\ \A k : Harmless(Message(k)) /\ Harmless(Drop(k, FALSE))
  <1>1. ASSUME NEW e, e.t # "register", e.t # "drop" PROVE Harmless(e)
    BY <1>1, Kinds DEF Harmless
  <1>2. ASSUME NEW k PROVE Harmless(Drop(k, FALSE))
    <2>1. Drop(k, FALSE).t # "register"
      BY Kinds2
    <2>2. ASSUME NEW j, Drop(k, FALSE) = Drop(j, TRUE) PROVE FALSE
      <3>1. Drop(k, FALSE).broadcast = FALSE /\ Drop(j, TRUE).broadcast = TRUE
        BY DEF Drop
      <3> QED BY <2>2, <3>1
    <2> QED BY <2>1, <2>2 DEF Harmless
  <1>3. /\ None.t = "none" /\ \A n : Event(n).t = "event"
        /\ \A k : Message(k).t = "message"
    BY Kinds2
  <1> QED BY <1>1, <1>2, <1>3

LEMMA PushHarmless ==
  ASSUME TypeOK, NEW s \in Side, NEW e \in WiredEvent, Harmless(e), PushW(s, e)
  PROVE  NoEntry
  <1> SUFFICES ASSUME NEW x \in Side, NEW k \in Key
               PROVE  /\ NoneAdded(wq[x], wq'[x], Register(k))
                      /\ NoneAdded(wq[x], wq'[x], Drop(k, TRUE))
    BY DEF NoEntry
  <1>1. wq \in [Side -> Seq(WiredEvent)]
    BY DEF TypeOK
  <1>2. wq'[x] = wq[x] \/ wq'[x] = Append(wq[x], e)
    BY <1>1 DEF PushW, Pushed
  <1>3. e # Register(k) /\ e # Drop(k, TRUE)
    BY Kinds DEF Harmless
  <1>4. wq[x] \in Seq(WiredEvent)
    BY <1>1
  <1>5. /\ NoneAdded(wq[x], Append(wq[x], e), Register(k))
        /\ NoneAdded(wq[x], Append(wq[x], e), Drop(k, TRUE))
    BY <1>3, <1>4, AppendAdds
  <1> QED BY <1>2, <1>5, SameAdds

LEMMA PopHarmless ==
  ASSUME TypeOK, NEW s \in Side, wq[s] # <<>>, PopW(s)
  PROVE  NoEntry
  <1> SUFFICES ASSUME NEW x \in Side, NEW k \in Key
               PROVE  /\ NoneAdded(wq[x], wq'[x], Register(k))
                      /\ NoneAdded(wq[x], wq'[x], Drop(k, TRUE))
    BY DEF NoEntry
  <1>1. wq \in [Side -> Seq(WiredEvent)]
    BY DEF TypeOK
  <1>2. (x = s /\ wq'[x] = Tail(wq[x])) \/ wq'[x] = wq[x]
    BY <1>1 DEF PopW
  <1>3. wq[x] \in Seq(WiredEvent)
    BY <1>1
  <1> QED BY <1>2, <1>3, SameAdds, TailAdds

LEMMA WriteHarmless ==
  ASSUME TypeOK, NEW s \in Side, NEW f \in WiringEvent, f.t # "open", Write(s, f)
  PROVE  NoFrame
  <1> SUFFICES ASSUME NEW x \in Side, NEW id \in WireId
               PROVE  NoneAdded(net[x], net'[x], OpenFrame(id))
    BY DEF NoFrame
  <1>1. net \in [Side -> Seq(WiringEvent)]
    BY DEF TypeOK
  <1>2. net' = net \/ net' = [net EXCEPT ![s] = Append(@, f)]
    BY DEF Write
  <1>3. net'[x] = net[x] \/ net'[x] = Append(net[x], f)
    BY <1>1, <1>2
  <1>4. f # OpenFrame(id) /\ net[x] \in Seq(WiringEvent)
    BY <1>1, Kinds
  <1>5. NoneAdded(net[x], Append(net[x], f), OpenFrame(id))
    BY <1>4, AppendAdds
  <1> QED BY <1>3, <1>5, SameAdds

LEMMA ReadHarmless ==
  ASSUME TypeOK, NEW s \in Side, NEW t, Reading(s, t)
  PROVE  NoFrame
  <1> SUFFICES ASSUME NEW x \in Side, NEW id \in WireId
               PROVE  NoneAdded(net[x], net'[x], OpenFrame(id))
    BY DEF NoFrame
  <1>1. net \in [Side -> Seq(WiringEvent)] /\ Peer(s) \in Side
    BY DEF TypeOK, Peer, Side
  <1>2. (x = Peer(s) /\ net[x] # <<>> /\ net'[x] = Tail(net[x])) \/ net'[x] = net[x]
    BY <1>1 DEF Reading
  <1>3. net[x] \in Seq(WiringEvent)
    BY <1>1
  <1> QED BY <1>2, <1>3, SameAdds, TailAdds

-----------------------------------------------------------------------------
(* Steps that open no stream and give up none.                              *)

\* What AnnouncedOnce and EntersOnce say of one id, of one stream, survives a step
\* that adds nothing about it.
LEMMA QuietId ==
  ASSUME TypeOK, TypeOK', NEW x \in Side, NEW id \in WireId, AnnouncedOnce(x, id),
         NoneAdded(net[x], net'[x], OpenFrame(id)), nextId[x] <= nextId'[x]
  PROVE  AnnouncedOnce(x, id)'
  <1>1. nextId[x] \in Nat /\ nextId'[x] \in Nat /\ id \in Nat
    BY Bounds DEF TypeOK, WireId
  <1> QED BY <1>1 DEF AnnouncedOnce, NoneAdded

LEMMA QuietKey ==
  ASSUME NEW x \in Side, NEW j \in Key, EntersOnce(x, j),
         Opened(x, j) => Opened(x, j)',
         NoneAdded(wq[x], wq'[x], Register(j)),
         NoneAdded(wq[x], wq'[x], Drop(j, TRUE)),
         j \in wired'[x] => j \in wired[x],
         wh'[x][j] = wh[x][j], rh'[x][j] = rh[x][j], drops'[x][j] = drops[x][j]
  PROVE  EntersOnce(x, j)'
  BY DEF EntersOnce, NoneAdded, Unknown, RxAlive, Held

\* Opened is stable when no id is announced.
LEMMA StaysOpened ==
  ASSUME TypeOK, NEW x \in Side, NEW j \in Key, NoFrame, nextId' = nextId, Opened(x, j)
  PROVE  Opened(x, j)'
  <1>1. Peer(x) \in Side /\ j[1] \in WireId
    BY DEF Peer, Side, Key
  <1>2. NoneAdded(net[Peer(x)], net'[Peer(x)], OpenFrame(j[1]))
    BY <1>1 DEF NoFrame
  <1> QED BY <1>2 DEF Opened, NoneAdded

LEMMA QuietStep ==
  ASSUME TypeOK, TypeOK', OpenedOnce, NoEntry, NoFrame,
         nextId' = nextId, wh' = wh, rh' = rh, drops' = drops,
         \A x \in Side : wired'[x] \subseteq wired[x]
  PROVE  OpenedOnce'
  <1>1. ASSUME NEW x \in Side, NEW id \in WireId PROVE AnnouncedOnce(x, id)'
    <2>1. nextId[x] <= nextId'[x]
      BY Bounds DEF TypeOK
    <2> QED BY <2>1, QuietId DEF OpenedOnce, NoFrame
  <1>2. ASSUME NEW x \in Side, NEW j \in Key PROVE EntersOnce(x, j)'
    <2>1. EntersOnce(x, j)
      BY DEF OpenedOnce
    <2>2. Opened(x, j) => Opened(x, j)'
      BY StaysOpened
    <2>3. /\ NoneAdded(wq[x], wq'[x], Register(j))
          /\ NoneAdded(wq[x], wq'[x], Drop(j, TRUE))
      BY DEF NoEntry
    <2> QED BY <2>1, <2>2, <2>3, QuietKey
  <1> QED BY <1>1, <1>2 DEF OpenedOnce

LEMMA StillQuiet ==
  ASSUME TRUE
  PROVE  /\ net' = net => NoFrame
         /\ wq' = wq => NoEntry
  BY SameAdds DEF NoFrame, NoEntry

LEMMA WiredQuiet ==
  ASSUME TypeOK, TypeOK', OpenedOnce, NEW s \in Side,
         \/ WiredNone(s) \/ WiredEventFails(s) \/ WiredEventDone(s) \/ WiredMessage(s)
         \/ WiredEnd(s)
  PROVE  OpenedOnce'
  <1> USE DEF wiredVars, helperVars, netVars, halfVars
  <1>1. CASE WiredNone(s) \/ WiredEventFails(s)
    <2>1. wq[s] # <<>> /\ PopW(s)
      BY <1>1 DEF WiredNone, WiredEventFails, WiredAt
    <2>2. NoEntry
      BY <2>1, PopHarmless
    <2>3. NoFrame
      BY <1>1, StillQuiet DEF WiredNone, WiredEventFails
    <2> QED BY <1>1, <2>2, <2>3, QuietStep DEF WiredNone, WiredEventFails
  <1>2. CASE WiredEventDone(s)
    <2>1. wq[s] # <<>> /\ PopW(s) /\ Write(s, EventFrame)
      BY <1>2 DEF WiredEventDone, WiredAt
    <2>2. NoEntry
      BY <2>1, PopHarmless
    <2>3. NoFrame
      BY <2>1, WriteHarmless, EventTypes, Kinds2
    <2> QED BY <1>2, <2>2, <2>3, QuietStep DEF WiredEventDone
  <1>3. CASE WiredMessage(s)
    <2> DEFINE k == Head(wq[s]).k
    <2>1. WiredAt(s, "message") /\ wq[s] # <<>> /\ PopW(s)
      BY <1>3 DEF WiredMessage, WiredAt
    <2>2. NoEntry
      BY <2>1, PopHarmless
    <2>3. NoFrame
      <3>1. CASE k \in wired[s] /\ wbuf[s][k] # <<>>
        <4>1. k \in Key
          BY <2>1, HeadW
        <4>6. Mirror(k) \in Key
          <5> HIDE DEF k
          <5> QED BY <4>1 DEF Mirror, Key
        <4>2. wbuf \in [Side -> [Key -> Seq(Nat \ {0})]]
          BY DEF TypeOK
        <4>3. Head(wbuf[s][k]) \in Nat \ {0}
          BY <3>1, <4>1, <4>2, ChannelType
        <4> DEFINE f == Data(Mirror(k), Head(wbuf[s][k]))
        <4>4. f \in WiringEvent /\ f.t # "open"
          <5>1. f \in WiringEvent
            BY <4>6, <4>3, EventTypes
          <5>2. f.t = "data"
            BY Kinds2
          <5> QED BY <5>1, <5>2
        <4>5. Write(s, f)
          BY <1>3, <3>1 DEF WiredMessage
        <4> HIDE DEF f
        <4> QED BY <4>4, <4>5, WriteHarmless
      <3>2. CASE ~(k \in wired[s] /\ wbuf[s][k] # <<>>)
        BY <1>3, <3>2, StillQuiet DEF WiredMessage
      <3> QED BY <3>1, <3>2
    <2>4. UNCHANGED <<nextId, wh, rh, drops, wired>>
      BY <1>3 DEF WiredMessage
    <2> QED BY <2>2, <2>3, <2>4, QuietStep
  <1>4. CASE WiredEnd(s)
    <2>1. NoEntry /\ NoFrame
      BY <1>4, StillQuiet DEF WiredEnd
    <2>2. \A x \in Side : wired'[x] \subseteq wired[x]
      BY <1>4 DEF WiredEnd, TypeOK
    <2> QED BY <1>4, <2>1, <2>2, QuietStep DEF WiredEnd
  <1> QED BY <1>1, <1>2, <1>3, <1>4

LEMMA ReaderQuiet ==
  ASSUME TypeOK, TypeOK', OpenedOnce, NEW s \in Side,
         \/ ReadEvent(s) \/ ReadMessage(s) \/ ReadDrop(s) \/ ReadEnd(s) \/ ReadJoin(s)
  PROVE  OpenedOnce'
  <1> USE DEF wiredVars, helperVars, netVars, halfVars
  <1>1. CASE ReadEvent(s) \/ ReadMessage(s) \/ ReadDrop(s)
    <2>1. Reading(s, "event") \/ Reading(s, "data") \/ Reading(s, "drop")
      BY <1>1 DEF ReadEvent, ReadMessage, ReadDrop
    <2>2. NoFrame
      BY <2>1, ReadHarmless
    <2>3. NoEntry
      BY <1>1, StillQuiet DEF ReadEvent, ReadMessage, ReadDrop
    <2> QED BY <1>1, <2>2, <2>3, QuietStep DEF ReadEvent, ReadMessage, ReadDrop
  <1>2. CASE ReadEnd(s)
    <2>1. NoEntry /\ NoFrame
      BY <1>2, StillQuiet DEF ReadEnd
    <2> QED BY <1>2, <2>1, QuietStep DEF ReadEnd
  <1>3. CASE ReadJoin(s)
    <2>1. Harmless(None) /\ None \in WiredEvent /\ PushW(s, None)
      BY <1>3, HarmlessEvents, EventTypes DEF ReadJoin
    <2>2. NoEntry
      BY <2>1, PushHarmless
    <2>3. NoFrame
      BY <1>3, StillQuiet DEF ReadJoin
    <2> QED BY <1>3, <2>2, <2>3, QuietStep DEF ReadJoin
  <1> QED BY <1>1, <1>2, <1>3

LEMMA HelperQuiet ==
  ASSUME TypeOK, TypeOK', OpenedOnce, NEW s \in Side, HelperStep(s)
  PROVE  OpenedOnce'
  <1> USE DEF wiredVars, helperVars, netVars, halfVars
  <1>1. CASE HelperMessage(s) \/ HelperRegister(s) \/ HelperNone(s) \/ HelperEnd(s)
    <2>1. UNCHANGED <<wq, net, nextId, wh, rh, drops, wired>>
      BY <1>1 DEF HelperMessage, HelperRegister, HelperNone, HelperEnd
    <2>2. NoEntry /\ NoFrame
      BY <2>1, StillQuiet
    <2> QED BY <2>1, <2>2, QuietStep
  <1>2. CASE HelperDrop(s)
    <2> DEFINE e == Drop(Head(uq[s]).k, FALSE)
    <2>1. HelperAt(s, "drop")
      BY <1>2 DEF HelperDrop
    <2>2. e \in WiredEvent
      BY <2>1, HeadU, EventTypes
    <2>3. Harmless(e)
      BY HarmlessEvents
    <2>4. PushW(s, e) \/ wq' = wq
      BY <1>2 DEF HelperDrop
    <2>5. UNCHANGED <<net, nextId, wh, rh, drops, wired>>
      BY <1>2 DEF HelperDrop
    <2> HIDE DEF e
    <2>6. NoEntry /\ NoFrame
      BY <2>2, <2>3, <2>4, <2>5, PushHarmless, StillQuiet
    <2> QED BY <2>5, <2>6, QuietStep
  <1> QED BY <1>1, <1>2 DEF HelperStep

LEMMA AppQuiet ==
  ASSUME TypeOK, TypeOK', OpenedOnce, NEW s \in Side,
         \/ \E n \in 0..MaxChans : Send(s, n)
         \/ SendNone(s) \/ Shutdown(s) \/ Abort(s) \/ AbandonShutdown(s)
         \/ \E k \in Key : FlushBegin(s, k) \/ FlushEnd(s, k) \/ PollRead(s, k)
                           \/ PollReadEof(s, k)
  PROVE  OpenedOnce'
  <1> USE DEF wiredVars, helperVars, netVars, halfVars
  <1>1. ASSUME NEW e \in WiredEvent, Harmless(e), PushW(s, e),
               UNCHANGED <<net, nextId, wh, rh, drops, wired>>
        PROVE  OpenedOnce'
    <2>1. NoEntry /\ NoFrame
      BY <1>1, PushHarmless, StillQuiet
    <2> QED BY <1>1, <2>1, QuietStep
  <1>2. ASSUME UNCHANGED <<wq, net, nextId, wh, rh, drops, wired>>
        PROVE  OpenedOnce'
    <2>1. NoEntry /\ NoFrame
      BY <1>2, StillQuiet
    <2> QED BY <1>2, <2>1, QuietStep
  <1>3. ASSUME NEW n \in 0..MaxChans, Send(s, n) PROVE OpenedOnce'
    <2>1. Event(n) \in WiredEvent /\ Harmless(Event(n))
      BY EventTypes, HarmlessEvents
    <2> QED BY <1>1, <1>3, <2>1 DEF Send
  <1>4. CASE SendNone(s) \/ Shutdown(s)
    <2>1. None \in WiredEvent /\ Harmless(None)
      BY EventTypes, HarmlessEvents
    <2> QED BY <1>1, <1>4, <2>1 DEF SendNone, Shutdown
  <1>5. CASE Abort(s)
    <2>1. wq \in [Side -> Seq(WiredEvent)] /\ wired \in [Side -> SUBSET Key]
      BY DEF TypeOK
    <2>2. \A x \in Side : wq'[x] = wq[x] \/ wq'[x] = <<>>
      BY <1>5, <2>1 DEF Abort
    <2>3. NoEntry /\ NoFrame
      BY <1>5, <2>2, StillQuiet, SameAdds, EmptyAdds DEF Abort, NoEntry
    <2>4. \A x \in Side : wired'[x] \subseteq wired[x]
      BY <1>5, <2>1 DEF Abort
    <2> QED BY <1>5, <2>3, <2>4, QuietStep DEF Abort
  <1>6. CASE AbandonShutdown(s)
    BY <1>2, <1>6 DEF AbandonShutdown
  <1>7. ASSUME NEW k \in Key, FlushBegin(s, k) PROVE OpenedOnce'
    BY <1>2, <1>7 DEF FlushBegin, FlushSend, SendData
  <1>8. ASSUME NEW k \in Key, FlushEnd(s, k) PROVE OpenedOnce'
    <2>1. Message(k) \in WiredEvent /\ Harmless(Message(k))
      BY EventTypes, HarmlessEvents
    <2>2. PushW(s, Message(k)) /\ UNCHANGED <<net, nextId, wh, rh, drops, wired>>
      BY <1>8 DEF FlushEnd, FlushSend, SendEvent
    <2> QED BY <1>1, <2>1, <2>2
  <1>9. ASSUME NEW k \in Key, PollRead(s, k) \/ PollReadEof(s, k) PROVE OpenedOnce'
    BY <1>2, <1>9 DEF PollRead, PollReadEof
  <1> QED BY <1>3, <1>4, <1>5, <1>6, <1>7, <1>8, <1>9

LEMMA BreakQuiet ==
  ASSUME TypeOK, TypeOK', OpenedOnce, Break
  PROVE  OpenedOnce'
  <1>1. PICK keep \in [Side -> 0..(Len(net[Client]) + Len(net[Server]))] :
          /\ \A s \in Side : keep[s] <= Len(net[s])
          /\ net' = [s \in Side |-> SubSeq(net[s], 1, keep[s])]
    BY DEF Break
  <1>2. ASSUME NEW x \in Side, NEW id \in WireId
        PROVE  NoneAdded(net[x], net'[x], OpenFrame(id))
    <2>1. /\ \A s \in Side : net[s] \in Seq(WiringEvent)
          /\ Client \in Side /\ Server \in Side
      BY DEF TypeOK, Side
    <2>2. Len(net[Client]) \in Nat /\ Len(net[Server]) \in Nat /\ Len(net[x]) \in Nat
      BY <2>1
    <2>3. keep[x] \in 0..(Len(net[Client]) + Len(net[Server])) /\ keep[x] <= Len(net[x])
      BY <1>1
    <2>4. keep[x] \in 0..Len(net[x])
      BY <2>2, <2>3
    <2>5. net'[x] = SubSeq(net[x], 1, keep[x])
      BY <1>1
    <2> QED BY <2>1, <2>4, <2>5, PrefixAdds
  <1>3. UNCHANGED <<wq, nextId, wh, rh, drops, wired>>
    BY DEF Break, wiredVars, halfVars
  <1>4. NoEntry /\ NoFrame
    BY <1>2, <1>3, StillQuiet DEF NoFrame
  <1> QED BY <1>3, <1>4, QuietStep

-----------------------------------------------------------------------------
(* Steps that open a stream or give one up.                                 *)

\* A push adds to one queue, and only the entry pushed.
LEMMA PushAdds ==
  ASSUME TypeOK, NEW s \in Side, NEW e \in WiredEvent, PushW(s, e),
         NEW x \in Side, NEW f
  PROVE  /\ x # s \/ e # f => NoneAdded(wq[x], wq'[x], f)
         /\ ~Queued(wq[x], f) => Once(wq'[x], f)
  <1>1. wq \in [Side -> Seq(WiredEvent)]
    BY DEF TypeOK
  <1>2. wq'[x] = wq[x] \/ (x = s /\ wq'[x] = Append(wq[x], e))
    BY <1>1 DEF PushW, Pushed
  <1>3. wq[x] \in Seq(WiredEvent)
    BY <1>1
  <1>4. ~Queued(wq[x], f) => Once(wq[x], f)
    BY DEF Queued, Once
  <1>5. /\ e # f => NoneAdded(wq[x], Append(wq[x], e), f)
        /\ ~Queued(wq[x], f) => Once(Append(wq[x], e), f)
    BY <1>3, AppendAdds
  <1> QED BY <1>2, <1>4, <1>5, SameAdds

\* The application closes or drops a half of one of its streams.
LEMMA HalfGone ==
  ASSUME TypeOK, TypeOK', OpenedOnce, NEW s \in Side, NEW k \in Key,
         HalfStep(s, k), ShutWrite(s, k) \/ DropWrite(s, k) \/ DropRead(s, k)
  PROVE  OpenedOnce'
  <1> USE DEF wiredVars, helperVars, netVars
  <1>1. /\ UNCHANGED <<net, nextId, drops, wired>> /\ PushW(s, Drop(k, TRUE))
        /\ \A x \in Side, j \in Key :
             x # s \/ j # k => wh'[x][j] = wh[x][j] /\ rh'[x][j] = rh[x][j]
    <2>1. /\ wh \in [Side -> [Key -> {"none", "open", "shut", "dropped"}]]
          /\ rh \in [Side -> [Key -> {"none", "open", "dropped"}]]
      BY DEF TypeOK
    <2>2. CASE ShutWrite(s, k)
      BY <2>1, <2>2 DEF ShutWrite
    <2>3. CASE DropWrite(s, k)
      BY <2>1, <2>3 DEF DropWrite
    <2>4. CASE DropRead(s, k)
      BY <2>1, <2>4 DEF DropRead
    <2> QED BY <2>2, <2>3, <2>4
  <1>2. ~Held(s, k)' /\ ~Unknown(s, k)
    <2>1. wh \in [Side -> [Key -> {"none", "open", "shut", "dropped"}]]
      BY DEF TypeOK
    <2>2. rh \in [Side -> [Key -> {"none", "open", "dropped"}]]
      BY DEF TypeOK
    <2>3. CASE ShutWrite(s, k)
      BY <2>1, <2>3 DEF ShutWrite, Held, Unknown
    <2>4. CASE DropWrite(s, k)
      BY <2>1, <2>4 DEF DropWrite, Held, Unknown
    <2>5. CASE DropRead(s, k)
      BY <2>2, <2>5 DEF DropRead, Held, Unknown
    <2> QED BY <2>3, <2>4, <2>5
  <1>3. NoFrame
    BY <1>1, StillQuiet
  <1>4. Drop(k, TRUE) \in WiredEvent
    BY EventTypes
  <1>5. ASSUME NEW x \in Side, NEW id \in WireId PROVE AnnouncedOnce(x, id)'
    <2>1. nextId[x] <= nextId'[x]
      BY <1>1, Bounds DEF TypeOK
    <2> QED BY <1>3, <2>1, QuietId DEF OpenedOnce, NoFrame
  <1>6. ASSUME NEW x \in Side, NEW j \in Key PROVE EntersOnce(x, j)'
    <2>1. EntersOnce(x, j)
      BY DEF OpenedOnce
    <2>2. Opened(x, j) => Opened(x, j)'
      BY <1>1, <1>3, StaysOpened
    <2>3. NoneAdded(wq[x], wq'[x], Register(j))
      <3>1. Drop(k, TRUE) # Register(j)
        BY Kinds, Kinds2
      <3> QED BY <1>1, <1>4, <3>1, PushAdds
    <2>4. CASE x # s \/ j # k
      <3>1. x # s \/ Drop(k, TRUE) # Drop(j, TRUE)
        BY <2>4, Kinds2
      <3>2. NoneAdded(wq[x], wq'[x], Drop(j, TRUE))
        BY <1>1, <1>4, <3>1, PushAdds
      <3> QED BY <1>1, <2>1, <2>2, <2>3, <2>4, <3>2, QuietKey
    <2>5. CASE x = s /\ j = k
      <3>1. Opened(x, j)'
        BY <1>2, <2>1, <2>2, <2>5 DEF EntersOnce
      <3>2. ~Held(x, j)'
        BY <1>2, <2>5
      <3>3. drops'[x][j] = drops[x][j] /\ (j \in wired'[x] <=> j \in wired[x])
        BY <1>1
      <3> QED BY <2>1, <2>3, <3>1, <3>2, <3>3 DEF EntersOnce, NoneAdded, RxAlive
    <2> QED BY <2>4, <2>5
  <1> QED BY <1>5, <1>6 DEF OpenedOnce

\* The wired task takes a registration: it was the only one.
LEMMA RegisterKeeps ==
  ASSUME TypeOK, TypeOK', OpenedOnce, NEW s \in Side, WiredRegister(s)
  PROVE  OpenedOnce'
  <1> USE DEF wiredVars, helperVars, netVars, halfVars
  <1> DEFINE k == Head(wq[s]).k
  <1>1. /\ WiredAt(s, "register") /\ PopW(s) /\ wq[s] # <<>>
        /\ UNCHANGED <<net, nextId, wh, rh, drops>>
        /\ wired' = [wired EXCEPT ![s] = @ \cup {k}]
    BY DEF WiredRegister, WiredAt
  <1>2. k \in Key /\ Head(wq[s]) \in WiredEvent /\ Head(wq[s]).t = "register"
    BY <1>1, HeadW
  <1>3. Head(wq[s]) = Register(k)
    BY <1>2 DEF WiredEvent, None, Register
  <1>4. NoEntry /\ NoFrame
    BY <1>1, PopHarmless, StillQuiet
  <1>5. wq \in [Side -> Seq(WiredEvent)] /\ wired \in [Side -> SUBSET Key]
    BY DEF TypeOK
  <1>6. wq'[s] = Tail(wq[s]) /\ wq[s] \in Seq(WiredEvent)
    BY <1>1, <1>5 DEF PopW
  <1> HIDE DEF k
  <1>7. ASSUME NEW x \in Side, NEW id \in WireId PROVE AnnouncedOnce(x, id)'
    <2>1. nextId[x] <= nextId'[x]
      BY <1>1, Bounds DEF TypeOK
    <2> QED BY <1>4, <2>1, QuietId DEF OpenedOnce, NoFrame
  <1>8. ASSUME NEW x \in Side, NEW j \in Key PROVE EntersOnce(x, j)'
    <2>1. EntersOnce(x, j)
      BY DEF OpenedOnce
    <2>2. Opened(x, j) => Opened(x, j)'
      BY <1>1, <1>4, StaysOpened
    <2>3. /\ NoneAdded(wq[x], wq'[x], Register(j))
          /\ NoneAdded(wq[x], wq'[x], Drop(j, TRUE))
      BY <1>4 DEF NoEntry
    <2>4. CASE x # s \/ j # k
      <3>1. j \in wired'[x] => j \in wired[x]
        BY <1>1, <1>5, <2>4
      <3> QED BY <1>1, <2>1, <2>2, <2>3, <3>1, QuietKey
    <2>5. CASE x = s /\ j = k
      <3>1. Queued(wq[x], Register(j))
        BY <1>1, <1>3, <1>6, <2>5, TailAdds
      <3>2. ~Queued(wq'[x], Register(j)) /\ Once(wq'[x], Register(j))
        <4>1. Once(wq[s], Register(k))
          BY <2>1, <2>5 DEF EntersOnce
        <4>2. ~Queued(Tail(wq[s]), Register(k))
          BY <1>1, <1>3, <1>6, <4>1, TailAdds
        <4> QED BY <1>6, <2>5, <4>2 DEF Queued, Once
      <3>3. Opened(x, j)' /\ drops[x][j] = 0
        BY <2>1, <2>2, <3>1 DEF EntersOnce, Unknown, RxAlive
      <3>4. /\ drops'[x][j] = drops[x][j]
            /\ Queued(wq'[x], Drop(j, TRUE)) => ~Held(x, j)'
        BY <1>1, <2>1, <2>3 DEF EntersOnce, NoneAdded, Held
      <3>5. drops'[x][j] = 0
        BY <3>3, <3>4
      <3>6. ~(drops'[x][j] > 0) /\ drops'[x][j] <= 1
        BY <3>5
      <3> QED BY <3>2, <3>3, <3>4, <3>5, <3>6 DEF EntersOnce
    <2> QED BY <2>4, <2>5
  <1> QED BY <1>7, <1>8 DEF OpenedOnce

\* The wired task drops a stream.
LEMMA DropKeeps ==
  ASSUME TypeOK, TypeOK', OpenedOnce, NEW s \in Side, WiredDrop(s)
  PROVE  OpenedOnce'
  <1> USE DEF wiredVars, helperVars, netVars, halfVars
  <1> DEFINE e == Head(wq[s])
             k == e.k
  <1>1. WiredAt(s, "drop") /\ PopW(s) /\ wq[s] # <<>> /\ UNCHANGED <<nextId, wh, rh>>
    BY DEF WiredDrop, WiredAt
  <1>2. k \in Key /\ e.broadcast \in BOOLEAN /\ e = Drop(k, e.broadcast)
    BY <1>1, HeadW
  <1>3. NoEntry
    BY <1>1, PopHarmless
  <1>4. /\ wq \in [Side -> Seq(WiredEvent)] /\ wired \in [Side -> SUBSET Key]
        /\ drops \in [Side -> [Key -> Nat]]
    BY DEF TypeOK
  <1>5. CASE k \notin wired[s]
    <2>1. UNCHANGED <<wired, net, drops>>
      BY <1>5 DEF WiredDrop
    <2>2. NoFrame
      BY <2>1, StillQuiet
    <2> QED BY <1>1, <1>3, <2>1, <2>2, QuietStep
  <1>6. CASE k \in wired[s]
    <2>1. Dropped(s, e)
      BY <1>6 DEF WiredDrop
    <2>2. /\ wired' = [wired EXCEPT ![s] = @ \ {k}]
          /\ e.broadcast => /\ Write(s, DropFrame(Mirror(k)))
                            /\ drops' = [drops EXCEPT ![s][k] = @ + 1]
          /\ ~e.broadcast => UNCHANGED <<net, drops>>
      BY <2>1 DEF Dropped
    <2> HIDE DEF k, e
    <2>3. \A x \in Side : wired'[x] \subseteq wired[x]
      BY <1>4, <2>2
    <2>4. CASE ~e.broadcast
      <3>1. NoFrame
        BY <2>2, <2>4, StillQuiet
      <3> QED BY <1>1, <1>3, <2>2, <2>3, <2>4, <3>1, QuietStep
    <2>5. CASE e.broadcast
      <3>1. Write(s, DropFrame(Mirror(k))) /\ drops' = [drops EXCEPT ![s][k] = @ + 1]
        BY <2>2, <2>5
      <3>2. NoFrame
        <4>1. Mirror(k) \in Key
          BY <1>2 DEF Mirror, Key
        <4>2. DropFrame(Mirror(k)) \in WiringEvent
          BY <4>1, EventTypes
        <4>3. DropFrame(Mirror(k)).t # "open"
          BY Kinds2
        <4> QED BY <3>1, <4>2, <4>3, WriteHarmless
      <3>3. ASSUME NEW x \in Side, NEW id \in WireId PROVE AnnouncedOnce(x, id)'
        <4>1. nextId[x] <= nextId'[x]
          BY <1>1, Bounds DEF TypeOK
        <4> QED BY <3>2, <4>1, QuietId DEF OpenedOnce, NoFrame
      <3>4. ASSUME NEW x \in Side, NEW j \in Key PROVE EntersOnce(x, j)'
        <4>1. EntersOnce(x, j)
          BY DEF OpenedOnce
        <4>2. Opened(x, j) => Opened(x, j)'
          BY <1>1, <3>2, StaysOpened
        <4>3. /\ NoneAdded(wq[x], wq'[x], Register(j))
              /\ NoneAdded(wq[x], wq'[x], Drop(j, TRUE))
          BY <1>3 DEF NoEntry
        <4>4. CASE x # s \/ j # k
          <5>1. drops'[x][j] = drops[x][j]
            BY <1>2, <1>4, <3>1, <4>4
          <5>2. j \in wired'[x] => j \in wired[x]
            BY <2>3
          <5> QED BY <1>1, <4>1, <4>2, <4>3, <5>1, <5>2, QuietKey
        <4>5. CASE x = s /\ j = k
          <5>1. Queued(wq[x], Drop(j, TRUE))
            <6>1. e = Drop(k, TRUE)
              BY <1>2, <2>5
            <6>2. Queued(wq[s], Head(wq[s]))
              BY <1>1, <1>4, TailAdds
            <6> QED BY <4>5, <6>1, <6>2 DEF e
          <5>2. ~Held(x, j) /\ drops[x][j] = 0 /\ Opened(x, j) /\ ~Queued(wq[x], Register(j))
            BY <1>6, <4>1, <4>5, <5>1 DEF EntersOnce, Unknown, RxAlive, k
          <5>3. ~Held(x, j)' /\ Opened(x, j)'
            BY <1>1, <4>2, <5>2 DEF Held
          <5>4. drops'[x][j] = 1
            BY <1>2, <1>4, <3>1, <4>5, <5>2
          <5>5. drops'[x][j] <= 1
            BY <5>4
          <5>6. ~RxAlive(x, j)' /\ Once(wq'[x], Register(j)) /\ j \notin wired'[x]
            <6>1. j \notin wired'[x]
              BY <1>4, <2>2, <4>5
            <6> QED BY <4>1, <4>3, <5>2, <6>1 DEF RxAlive, NoneAdded, EntersOnce
          <5> QED BY <5>3, <5>5, <5>6 DEF EntersOnce
        <4> QED BY <4>4, <4>5
      <3> QED BY <3>3, <3>4 DEF OpenedOnce
    <2> QED BY <2>4, <2>5
  <1> QED BY <1>5, <1>6

\* The reader takes the id of a new stream off the transport.
LEMMA OpenKeeps ==
  ASSUME TypeOK, TypeOK', OpenedOnce, NEW s \in Side, ReadOpen(s)
  PROVE  OpenedOnce'
  <1> USE DEF wiredVars, helperVars, netVars
  <1> DEFINE p == Peer(s)
  <1>1. Reading(s, "open")
    BY DEF ReadOpen
  <1>2. /\ net[p] # <<>> /\ Head(net[p]) \in WiringEvent /\ Head(net[p]).t = "open"
        /\ Head(net[p]).id \in WireId
    BY <1>1, HeadNet
  <1> PICK id \in WireId : id = Head(net[p]).id
    BY <1>2
  <1> DEFINE k == Remote(id)
  <1>3. /\ Reading(s, "open") /\ PushW(s, Register(k))
        /\ UNCHANGED <<nextId, drops, wired>>
        /\ wh' = [wh EXCEPT ![s][k] = "open"] /\ rh' = [rh EXCEPT ![s][k] = "open"]
    BY DEF ReadOpen
  <1>4. Head(net[p]) = OpenFrame(id)
    BY <1>2 DEF WiringEvent, EventFrame, OpenFrame
  <1>5. k \in Key /\ k[1] = id /\ k[2] = FALSE
    BY DEF Remote, Key
  <1>6. p \in Side /\ net \in [Side -> Seq(WiringEvent)]
    BY DEF Peer, Side, TypeOK
  <1>7. net'[p] = Tail(net[p]) /\ net[p] \in Seq(WiringEvent)
    BY <1>3, <1>6 DEF Reading
  <1>8. NoFrame
    BY <1>3, ReadHarmless
  <1>9. Register(k) \in WiredEvent
    BY <1>5, EventTypes
  <1> HIDE DEF p, k
  <1>10. Queued(net[p], OpenFrame(id)) /\ AnnouncedOnce(p, id)
    <2>1. Queued(net[p], OpenFrame(id))
      BY <1>2, <1>4, <1>7, TailAdds
    <2> QED BY <1>2, <1>6, <2>1 DEF OpenedOnce
  <1>11. Unknown(s, k)
    <2>1. ~Opened(s, k)
      BY <1>5, <1>10 DEF Opened, p
    <2> QED BY <1>5, <2>1 DEF OpenedOnce, EntersOnce
  <1>12. Opened(s, k)'
    <2>1. ~Queued(net'[p], OpenFrame(id))
      BY <1>2, <1>4, <1>7, <1>10, TailAdds DEF AnnouncedOnce
    <2>2. id <= nextId'[p]
      BY <1>3, <1>10 DEF AnnouncedOnce
    <2> QED BY <1>5, <2>1, <2>2 DEF Opened, p, k
  <1>13. ASSUME NEW x \in Side, NEW i \in WireId PROVE AnnouncedOnce(x, i)'
    <2>1. nextId[x] <= nextId'[x]
      BY <1>3, Bounds DEF TypeOK
    <2> QED BY <1>8, <2>1, QuietId DEF OpenedOnce, NoFrame
  <1>14. ASSUME NEW x \in Side, NEW j \in Key PROVE EntersOnce(x, j)'
    <2>1. EntersOnce(x, j)
      BY DEF OpenedOnce
    <2>2. Opened(x, j) => Opened(x, j)'
      BY <1>3, <1>8, StaysOpened
    <2>3. NoneAdded(wq[x], wq'[x], Drop(j, TRUE))
      <3>1. Register(k) # Drop(j, TRUE)
        BY Kinds, Kinds2
      <3> QED BY <1>3, <1>9, <3>1, PushAdds
    <2>4. CASE x # s \/ j # k
      <3>1. NoneAdded(wq[x], wq'[x], Register(j))
        <4>1. x # s \/ Register(k) # Register(j)
          BY <2>4, Kinds2
        <4> QED BY <1>3, <1>9, <4>1, PushAdds
      <3>2. wh'[x][j] = wh[x][j] /\ rh'[x][j] = rh[x][j]
        <4>1. /\ wh \in [Side -> [Key -> {"none", "open", "shut", "dropped"}]]
              /\ rh \in [Side -> [Key -> {"none", "open", "dropped"}]]
          BY DEF TypeOK
        <4> QED BY <1>3, <2>4, <4>1
      <3> QED BY <1>3, <2>1, <2>2, <2>3, <3>1, <3>2, QuietKey
    <2>5. CASE x = s /\ j = k
      <3>1. Once(wq'[x], Register(j))
        BY <1>3, <1>9, <1>11, <2>5, PushAdds DEF Unknown
      <3>2. j \notin wired'[x] /\ drops'[x][j] = 0 /\ Opened(x, j)'
        BY <1>3, <1>11, <1>12, <2>5 DEF Unknown
      <3>4. ~Queued(wq'[x], Drop(j, TRUE))
        BY <1>11, <2>3, <2>5 DEF Unknown, NoneAdded
      <3>3. ~(drops'[x][j] > 0) /\ drops'[x][j] <= 1
        BY <3>2
      <3> QED BY <3>1, <3>2, <3>3, <3>4 DEF EntersOnce
    <2> QED BY <2>4, <2>5
  <1> QED BY <1>13, <1>14 DEF OpenedOnce

\* connect() allots the next id of side s and announces it, or fails to.
Allots(s, id) ==
  /\ id = nextId[s] + 1 /\ nextId' = [nextId EXCEPT ![s] = id]
  /\ net' = net \/ net' = [net EXCEPT ![s] = Append(@, OpenFrame(id))]

LEMMA Fresh ==
  ASSUME TypeOK, OpenedOnce, NEW s \in Side, NEW id \in WireId, Allots(s, id)
  PROVE  /\ ~Queued(net[s], OpenFrame(id))
         /\ nextId[s] \in Nat /\ nextId'[s] = id /\ ~(id <= nextId[s])
         /\ Local(id) \in Key /\ Unknown(s, Local(id)) /\ Opened(s, Local(id))'
  <1>1. nextId \in [Side -> 0..MaxStreams] /\ nextId[s] \in Nat
    BY Bounds DEF TypeOK
  <1>2. id = nextId[s] + 1 /\ nextId'[s] = id
    BY <1>1 DEF Allots
  <1>3. ~(id <= nextId[s])
    BY <1>1, <1>2
  <1>4. ~Queued(net[s], OpenFrame(id))
    BY <1>3 DEF OpenedOnce, AnnouncedOnce
  <1>5. Local(id) \in Key /\ Local(id)[1] = id /\ Local(id)[2] = TRUE
    BY DEF Local, Key
  <1>6. Unknown(s, Local(id))
    BY <1>3, <1>5 DEF OpenedOnce, EntersOnce, Opened
  <1>7. id <= nextId'[s]
    BY <1>1, <1>2
  <1>8. Opened(s, Local(id))'
    BY <1>5, <1>7 DEF Opened, Local
  <1> QED BY <1>1, <1>2, <1>3, <1>4, <1>5, <1>6, <1>8

LEMMA AllotsId ==
  ASSUME TypeOK, TypeOK', OpenedOnce, NEW s \in Side, NEW id \in WireId, Allots(s, id),
         NEW x \in Side, NEW i \in WireId
  PROVE  /\ AnnouncedOnce(x, i)'
         /\ nextId[x] <= nextId'[x]
         /\ x # s \/ i # id => NoneAdded(net[x], net'[x], OpenFrame(i))
  <1>1. /\ nextId \in [Side -> 0..MaxStreams] /\ net \in [Side -> Seq(WiringEvent)]
        /\ net[x] \in Seq(WiringEvent)
    BY DEF TypeOK
  <1>2. OpenFrame(id) \in WiringEvent
    BY EventTypes
  <1>3. net'[x] = net[x] \/ (x = s /\ net'[x] = Append(net[x], OpenFrame(id)))
    BY <1>1 DEF Allots
  <1>4. nextId[x] <= nextId'[x]
    <2>1. nextId'[x] = nextId[x] \/ nextId'[x] = nextId[x] + 1
      BY <1>1 DEF Allots
    <2>2. nextId[x] \in Nat
      BY <1>1, Bounds
    <2> QED BY <2>1, <2>2
  <1>5. x # s \/ i # id => NoneAdded(net[x], net'[x], OpenFrame(i))
    <2> SUFFICES ASSUME x # s \/ i # id PROVE NoneAdded(net[x], net'[x], OpenFrame(i))
      OBVIOUS
    <2>1. CASE net'[x] = net[x]
      BY <2>1, SameAdds
    <2>2. CASE x = s /\ net'[x] = Append(net[x], OpenFrame(id))
      <3>1. OpenFrame(id) # OpenFrame(i)
        BY <2>2, Kinds2
      <3>2. NoneAdded(net[x], Append(net[x], OpenFrame(id)), OpenFrame(i))
        BY <1>1, <1>2, <3>1, AppendAdds
      <3> QED BY <2>2, <3>2
    <2> QED BY <1>3, <2>1, <2>2
  <1>6. AnnouncedOnce(x, i)'
    <2>1. CASE x # s \/ i # id
      <3>1. AnnouncedOnce(x, i)
        BY DEF OpenedOnce
      <3> QED BY <1>4, <1>5, <2>1, <3>1, QuietId
    <2>2. CASE x = s /\ i = id
      <3>1. ~Queued(net[x], OpenFrame(i)) /\ nextId'[x] = i
        BY <2>2, Fresh
      <3>2. Once(net'[x], OpenFrame(i))
        <4>1. Once(net[x], OpenFrame(i))
          BY <3>1 DEF Once, Queued
        <4>2. Once(Append(net[x], OpenFrame(id)), OpenFrame(i))
          BY <1>1, <1>2, <3>1, AppendAdds
        <4> QED BY <1>3, <4>1, <4>2
      <3>3. i <= nextId'[x]
        BY <3>1 DEF WireId
      <3> QED BY <3>2, <3>3 DEF AnnouncedOnce
    <2> QED BY <2>1, <2>2
  <1> QED BY <1>4, <1>5, <1>6

LEMMA AllotsOpened ==
  ASSUME TypeOK, TypeOK', OpenedOnce, NEW s \in Side, NEW id \in WireId, Allots(s, id),
         NEW x \in Side, NEW j \in Key, Opened(x, j)
  PROVE  Opened(x, j)'
  <1> DEFINE p == Peer(x)
  <1>1. p \in Side /\ j[1] \in WireId /\ j[1] \in Nat
    BY DEF Peer, Side, Key, WireId
  <1>2. nextId[x] \in Nat /\ nextId'[x] \in Nat /\ nextId[p] \in Nat /\ nextId'[p] \in Nat
    BY <1>1, Bounds DEF TypeOK
  <1>3. nextId[x] <= nextId'[x] /\ nextId[p] <= nextId'[p]
    BY <1>1, AllotsId
  <1>4. CASE j[2]
    <2>1. j[1] <= nextId[x]
      BY <1>4 DEF Opened
    <2>2. j[1] <= nextId'[x]
      BY <1>1, <1>2, <1>3, <2>1
    <2> QED BY <1>4, <2>2 DEF Opened
  <1>5. CASE ~j[2]
    <2>1. j[1] <= nextId[p] /\ ~Queued(net[p], OpenFrame(j[1]))
      BY <1>5 DEF Opened
    <2>2. j[1] <= nextId'[p]
      <3> HIDE DEF p
      <3> QED BY <1>1, <1>2, <1>3, <2>1
    <2>3. p # s \/ j[1] # id
      BY <2>1, Fresh
    <2>4. ~Queued(net'[p], OpenFrame(j[1]))
      BY <1>1, <2>1, <2>3, AllotsId DEF NoneAdded
    <2> QED BY <1>5, <2>2, <2>4 DEF Opened
  <1> QED BY <1>4, <1>5

\* The new stream is registered on its side, and a Drop of it is queued only if its
\* halves are gone.
LEMMA AllotsKeeps ==
  ASSUME TypeOK, TypeOK', OpenedOnce, NEW s \in Side, NEW id \in WireId, Allots(s, id),
         wired' = [wired EXCEPT ![s] = @ \cup {Local(id)}], drops' = drops,
         \A x \in Side, j \in Key :
           /\ NoneAdded(wq[x], wq'[x], Register(j))
           /\ x # s \/ j # Local(id) =>
                /\ NoneAdded(wq[x], wq'[x], Drop(j, TRUE))
                /\ wh'[x][j] = wh[x][j] /\ rh'[x][j] = rh[x][j],
         Queued(wq'[s], Drop(Local(id), TRUE)) => ~Held(s, Local(id))'
  PROVE  OpenedOnce'
  <1>1. ASSUME NEW x \in Side, NEW i \in WireId PROVE AnnouncedOnce(x, i)'
    BY AllotsId
  <1>2. ASSUME NEW x \in Side, NEW j \in Key PROVE EntersOnce(x, j)'
    <2>1. EntersOnce(x, j)
      BY DEF OpenedOnce
    <2>2. Opened(x, j) => Opened(x, j)'
      BY AllotsOpened
    <2>3. NoneAdded(wq[x], wq'[x], Register(j))
      OBVIOUS
    <2>4. wired \in [Side -> SUBSET Key]
      BY DEF TypeOK
    <2>5. CASE x # s \/ j # Local(id)
      <3>1. j \in wired'[x] => j \in wired[x]
        BY <2>4, <2>5
      <3>2. /\ NoneAdded(wq[x], wq'[x], Drop(j, TRUE))
            /\ wh'[x][j] = wh[x][j] /\ rh'[x][j] = rh[x][j]
        BY <2>5
      <3> QED BY <2>1, <2>2, <2>3, <3>1, <3>2, QuietKey
    <2>6. CASE x = s /\ j = Local(id)
      <3>1. Unknown(x, j) /\ Opened(x, j)'
        BY <2>6, Fresh
      <3>2. ~Queued(wq[x], Register(j)) /\ drops[x][j] = 0
        BY <3>1 DEF Unknown
      <3>3. ~Queued(wq'[x], Register(j)) /\ Once(wq'[x], Register(j))
        BY <2>1, <2>3, <3>2 DEF NoneAdded, EntersOnce
      <3>4. Queued(wq'[x], Drop(j, TRUE)) => ~Held(x, j)'
        BY <2>6
      <3>5. drops'[x][j] = 0
        BY <3>2
      <3>6. ~(drops'[x][j] > 0) /\ drops'[x][j] <= 1
        BY <3>5
      <3> QED BY <3>1, <3>3, <3>4, <3>5, <3>6 DEF EntersOnce
    <2> QED BY <2>5, <2>6
  <1> QED BY <1>1, <1>2 DEF OpenedOnce

\* Counting down the channels of the event at the head of a queue adds nothing.
LEMMA CountDownAdds ==
  ASSUME NEW S, NEW q \in Seq(S), q # <<>>, NEW a, NEW e, a # e
  PROVE  NoneAdded(q, [q EXCEPT ![1] = a], e)
  <1> DEFINE r == [q EXCEPT ![1] = a]
  <1>1. DOMAIN r = DOMAIN q /\ 1 \in DOMAIN q
    OBVIOUS
  <1>2. ASSUME NEW i \in DOMAIN r, r[i] = e PROVE i \in DOMAIN q /\ q[i] = e
    BY <1>1, <1>2
  <1> HIDE DEF r
  <1>3. NoneAdded(q, r, e)
    BY <1>2 DEF NoneAdded, Queued, Once
  <1> QED BY <1>3 DEF r

LEMMA ConnectKeeps ==
  ASSUME TypeOK, TypeOK', OpenedOnce, NEW s \in Side, WiredConnect(s)
  PROVE  OpenedOnce'
  <1>1. nextId[s] + 1 \in WireId
    BY NextIdType DEF WiredConnect
  <1> PICK id \in WireId : id = nextId[s] + 1
    BY <1>1
  <1> DEFINE k == Local(id)
  <1>2. Allots(s, id)
    BY DEF WiredConnect, Connected, Allots
  <1>3. /\ wired' = [wired EXCEPT ![s] = @ \cup {k}] /\ drops' = drops
        /\ wh' = [wh EXCEPT ![s][k] = "open"] /\ rh' = [rh EXCEPT ![s][k] = "open"]
        /\ wq' = [wq EXCEPT ![s][1].chans = @ - 1] /\ WiredAt(s, "event")
    BY DEF WiredConnect, Connected
  <1>4. /\ wh \in [Side -> [Key -> {"none", "open", "shut", "dropped"}]]
        /\ rh \in [Side -> [Key -> {"none", "open", "dropped"}]]
        /\ wq \in [Side -> Seq(WiredEvent)]
    BY DEF TypeOK
  <1>5. wq[s] \in Seq(WiredEvent) /\ wq[s] # <<>> /\ wq[s][1].t = "event"
    BY <1>3, HeadW
  <1> DEFINE a == [wq[s][1] EXCEPT !.chans = @ - 1]
  <1>6. a.t = "event"
    <2>1. wq[s][1] \in [t : {"event"}, chans : 0..MaxChans]
      <3>1. wq[s][1] \in WiredEvent
        BY <1>3, HeadW
      <3> QED BY <1>5, <3>1 DEF WiredEvent, None
    <2> QED BY <2>1
  <1>7. wq'[s] = [wq[s] EXCEPT ![1] = a]
    BY <1>3, <1>4, <1>5
  <1> HIDE DEF a, k
  <1>8. ASSUME NEW x \in Side, NEW j \in Key
        PROVE  /\ NoneAdded(wq[x], wq'[x], Register(j))
               /\ NoneAdded(wq[x], wq'[x], Drop(j, TRUE))
    <2>1. CASE x # s
      <3>1. wq'[x] = wq[x]
        BY <1>3, <1>4, <2>1
      <3> QED BY <3>1, SameAdds
    <2>2. CASE x = s
      <3>1. a # Register(j) /\ a # Drop(j, TRUE)
        BY <1>6, Kinds
      <3>2. /\ NoneAdded(wq[s], [wq[s] EXCEPT ![1] = a], Register(j))
            /\ NoneAdded(wq[s], [wq[s] EXCEPT ![1] = a], Drop(j, TRUE))
        BY <1>5, <3>1, CountDownAdds
      <3> QED BY <1>7, <2>2, <3>2
    <2> QED BY <2>1, <2>2
  <1>9. ASSUME NEW x \in Side, NEW j \in Key, x # s \/ j # k
        PROVE  wh'[x][j] = wh[x][j] /\ rh'[x][j] = rh[x][j]
    BY <1>3, <1>4, <1>9
  <1>10. Local(id) \in Key /\ ~Queued(wq'[s], Drop(k, TRUE))
    <2>1. Local(id) \in Key /\ Unknown(s, k)
      BY <1>2, Fresh DEF k
    <2> QED BY <1>8, <2>1 DEF Unknown, NoneAdded, k
  <1>11. \A x \in Side, j \in Key :
           /\ NoneAdded(wq[x], wq'[x], Register(j))
           /\ x # s \/ j # Local(id) =>
                /\ NoneAdded(wq[x], wq'[x], Drop(j, TRUE))
                /\ wh'[x][j] = wh[x][j] /\ rh'[x][j] = rh[x][j]
    BY <1>8, <1>9 DEF k
  <1>12. Queued(wq'[s], Drop(Local(id), TRUE)) => ~Held(s, Local(id))'
    BY <1>10 DEF k
  <1>13. wired' = [wired EXCEPT ![s] = @ \cup {Local(id)}] /\ drops' = drops
    BY <1>3 DEF k
  <1> QED BY <1>2, <1>11, <1>12, <1>13, AllotsKeeps

LEMMA ConnectFailsKeeps ==
  ASSUME TypeOK, TypeOK', OpenedOnce, NEW s \in Side, WiredConnectFails(s)
  PROVE  OpenedOnce'
  <1> USE DEF netVars
  <1>1. nextId[s] + 1 \in WireId
    BY NextIdType DEF WiredConnectFails
  <1> PICK id \in WireId : id = nextId[s] + 1
    BY <1>1
  <1> DEFINE k == Local(id)
             popped == [wq EXCEPT ![s] = Tail(@)]
             d == Drop(k, TRUE)
  <1>2. Allots(s, id)
    BY DEF WiredConnectFails, Connected, Allots
  <1>3. /\ wired' = [wired EXCEPT ![s] = @ \cup {k}] /\ drops' = drops
        /\ wh' = [wh EXCEPT ![s][k] = "dropped"] /\ rh' = [rh EXCEPT ![s][k] = "dropped"]
        /\ wq' = Pushed(Pushed(popped, wstate, s, d), wstate, s, d)
        /\ WiredAt(s, "event")
    BY DEF WiredConnectFails, Connected
  <1>4. /\ wh \in [Side -> [Key -> {"none", "open", "shut", "dropped"}]]
        /\ rh \in [Side -> [Key -> {"none", "open", "dropped"}]]
        /\ wq \in [Side -> Seq(WiredEvent)]
    BY DEF TypeOK
  <1>5. k \in Key /\ d \in WiredEvent
    BY <1>2, Fresh, EventTypes
  <1>6. wq[s] \in Seq(WiredEvent) /\ wq[s] # <<>> /\ Tail(wq[s]) \in Seq(WiredEvent)
    <2>1. wq[s] \in Seq(WiredEvent) /\ wq[s] # <<>>
      BY <1>3, HeadW
    <2> QED BY <2>1
  <1> DEFINE q1 == Tail(wq[s])
             q2 == Append(q1, d)
             q3 == Append(q2, d)
  <1>7. q2 \in Seq(WiredEvent)
    <2> HIDE DEF d
    <2> QED BY <1>5, <1>6
  <1>8. wq'[s] = q1 \/ wq'[s] = q3
    <2> HIDE DEF d
    <2>1. popped \in [Side -> Seq(WiredEvent)] /\ popped[s] = q1
      BY <1>4, <1>6
    <2> HIDE DEF popped
    <2>2. CASE wstate[s] = "open"
      BY <1>3, <2>1, <2>2 DEF Pushed
    <2>3. CASE wstate[s] # "open"
      BY <1>3, <2>1, <2>3 DEF Pushed
    <2> QED BY <2>2, <2>3
  <1>9. ASSUME NEW x \in Side, x # s PROVE wq'[x] = wq[x]
    BY <1>3, <1>4, <1>9 DEF Pushed
  <1> HIDE DEF k, popped
  <1>10. ASSUME NEW e, e # d PROVE NoneAdded(wq[s], wq'[s], e)
    <2> HIDE DEF d
    <2>1. NoneAdded(wq[s], q1, e)
      BY <1>6, TailAdds
    <2>2. NoneAdded(q1, q2, e)
      BY <1>5, <1>6, <1>10, AppendAdds
    <2>3. NoneAdded(q2, q3, e)
      BY <1>5, <1>7, <1>10, AppendAdds
    <2> HIDE DEF q1, q2, q3
    <2> QED BY <1>8, <2>1, <2>2, <2>3 DEF NoneAdded
  <1>11. ASSUME NEW x \in Side, NEW j \in Key
         PROVE  /\ NoneAdded(wq[x], wq'[x], Register(j))
                /\ x # s \/ j # k => NoneAdded(wq[x], wq'[x], Drop(j, TRUE))
    <2>1. CASE x # s
      BY <1>9, <2>1, SameAdds
    <2>2. CASE x = s
      <3>1. Register(j) # d /\ (j # k => Drop(j, TRUE) # d)
        BY Kinds, Kinds2
      <3> QED BY <1>10, <2>2, <3>1
    <2> QED BY <2>1, <2>2
  <1>12. ASSUME NEW x \in Side, NEW j \in Key, x # s \/ j # k
         PROVE  wh'[x][j] = wh[x][j] /\ rh'[x][j] = rh[x][j]
    BY <1>3, <1>4, <1>12
  <1>13. ~Held(s, k)'
    <2>1. wh'[s][k] = "dropped"
      BY <1>3, <1>4, <1>5
    <2> QED BY <2>1 DEF Held, k
  <1>14. \A x \in Side, j \in Key :
           /\ NoneAdded(wq[x], wq'[x], Register(j))
           /\ x # s \/ j # Local(id) =>
                /\ NoneAdded(wq[x], wq'[x], Drop(j, TRUE))
                /\ wh'[x][j] = wh[x][j] /\ rh'[x][j] = rh[x][j]
    BY <1>11, <1>12 DEF k
  <1>15. Queued(wq'[s], Drop(Local(id), TRUE)) => ~Held(s, Local(id))'
    BY <1>13 DEF k
  <1>16. wired' = [wired EXCEPT ![s] = @ \cup {Local(id)}] /\ drops' = drops
    BY <1>3 DEF k
  <1> QED BY <1>2, <1>14, <1>15, <1>16, AllotsKeeps

-----------------------------------------------------------------------------
(* The theorem.                                                             *)

LEMMA OpenedOnceInit == ASSUME Init PROVE OpenedOnce
  <1>1. ASSUME NEW x \in Side, NEW id \in WireId PROVE AnnouncedOnce(x, id)
    BY <1>1 DEF Init, AnnouncedOnce, Once, Queued
  <1>2. ASSUME NEW x \in Side, NEW k \in Key PROVE EntersOnce(x, k)
    <2>1. /\ wq[x] = <<>> /\ wired[x] = {} /\ drops[x][k] = 0
          /\ wh[x][k] = "none" /\ rh[x][k] = "none"
      BY <1>2 DEF Init, PerKey
    <2>2. \A e : ~Queued(wq[x], e) /\ Once(wq[x], e)
      BY <2>1 DEF Queued, Once
    <2>3. ~(drops[x][k] > 0) /\ drops[x][k] <= 1
      BY <2>1
    <2> QED BY <2>1, <2>2, <2>3 DEF EntersOnce, Unknown, RxAlive
  <1> QED BY <1>1, <1>2 DEF OpenedOnce

LEMMA OpenedOnceStep ==
  ASSUME TypeOK, TypeOK', OpenedOnce, [Next]_vars
  PROVE  OpenedOnce'
  <1>1. CASE UNCHANGED vars
    <2>1. UNCHANGED <<wq, net, nextId, wh, rh, drops, wired>>
      BY <1>1 DEF vars, wiredVars, netVars, halfVars
    <2>2. NoEntry /\ NoFrame
      BY <2>1, StillQuiet
    <2> QED BY <2>1, <2>2, QuietStep
  <1>2. ASSUME NEW s \in Side, WiredStep(s) PROVE OpenedOnce'
    BY <1>2, WiredQuiet, ConnectKeeps, ConnectFailsKeeps, RegisterKeeps, DropKeeps
       DEF WiredStep
  <1>3. ASSUME NEW s \in Side, ReaderStep(s) PROVE OpenedOnce'
    BY <1>3, ReaderQuiet, OpenKeeps DEF ReaderStep
  <1>4. ASSUME NEW s \in Side, AppStep(s) PROVE OpenedOnce'
    <2>1. ASSUME NEW k \in Key, HalfStep(s, k) PROVE OpenedOnce'
      <3>1. CASE ShutWrite(s, k) \/ DropWrite(s, k) \/ DropRead(s, k)
        BY <2>1, <3>1, HalfGone
      <3>2. CASE ~(ShutWrite(s, k) \/ DropWrite(s, k) \/ DropRead(s, k))
        BY <2>1, <3>2, AppQuiet DEF HalfStep
      <3> QED BY <3>1, <3>2
    <2> QED BY <1>4, <2>1, AppQuiet DEF AppStep
  <1> QED BY <1>1, <1>2, <1>3, <1>4, HelperQuiet, BreakQuiet DEF Next

\* A stream enters the books of a side once: its id is announced once, nothing of it is
\* known before it is opened, and it is in Wired.streams or still to be registered, never
\* both (connect of wired.rs and of unwired.rs, and the `register` arm of Wired::run).
THEOREM StreamsOpenedOnce == Spec => []OpenedOnce
  <1>1. Init => OpenedOnce
    BY OpenedOnceInit
  <1>2. TypeOK /\ TypeOK' /\ OpenedOnce /\ [Next]_vars => OpenedOnce'
    BY OpenedOnceStep
  <1> QED BY <1>1, <1>2, TypeCorrect, PTL DEF Spec

\* A side writes at most one Drop frame for a stream (the guard `remove(..).is_some()`
\* of the wired task), and only after a half of its own was closed: for any number of
\* streams, channels and messages, whatever fails.
THEOREM DropOnce == Spec => []DropOnceNeverEchoed
  <1>1. TypeOK /\ OpenedOnce => DropOnceNeverEchoed
    <2> SUFFICES ASSUME TypeOK, OpenedOnce, NEW s \in Side, NEW k \in Key
                 PROVE  drops[s][k] <= 1 /\ (drops[s][k] = 1 => ~Held(s, k))
      BY DEF DropOnceNeverEchoed
    <2>1. EntersOnce(s, k)
      BY DEF OpenedOnce
    <2>2. drops[s][k] = 1 => drops[s][k] > 0
      OBVIOUS
    <2> QED BY <2>1, <2>2 DEF EntersOnce
  <1> QED BY <1>1, StreamsOpenedOnce, TypeCorrect, PTL

=============================================================================
