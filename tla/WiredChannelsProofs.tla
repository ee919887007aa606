------------------------ MODULE WiredChannelsProofs ------------------------
(* Proofs about the channels over the streams of Wired: what Wired promises  *)
(* holds under their tasks, and the first value a channel accepts is not     *)
(* lost to its receiver.                                                     *)
EXTENDS WiredChannels, WiredHeldProofs

-----------------------------------------------------------------------------
(* What stands ahead of what in a queue.                                    *)

\* q holds an entry of S, and none of D before it.
Ahead(q, S, D) == \E i \in DOMAIN q : q[i] \in S /\ \A j \in 1..(i - 1) : q[j] \notin D

LEMMA AheadAppend ==
  ASSUME NEW T, NEW q \in Seq(T), NEW e \in T, NEW S, NEW D
  PROVE  /\ Ahead(q, S, D) => Ahead(Append(q, e), S, D)
         /\ e \in S /\ (\A i \in DOMAIN q : q[i] \notin D) => Ahead(Append(q, e), S, D)
  <1> DEFINE r == Append(q, e)
             n == Len(q) + 1
  <1>1. /\ DOMAIN r = 1..n /\ r[n] = e /\ n \in Nat /\ n >= 1 /\ DOMAIN q = 1..(n - 1)
        /\ \A i \in DOMAIN q : r[i] = q[i]
    OBVIOUS
  <1> HIDE DEF r, n
  <1>2. ASSUME Ahead(q, S, D) PROVE Ahead(r, S, D)
    <2>1. PICK i \in DOMAIN q : q[i] \in S /\ \A j \in 1..(i - 1) : q[j] \notin D
      BY <1>2 DEF Ahead
    <2>2. i \in DOMAIN r /\ r[i] \in S /\ \A j \in 1..(i - 1) : r[j] \notin D
      BY <1>1, <2>1
    <2> QED BY <2>2 DEF Ahead
  <1>3. ASSUME e \in S, \A i \in DOMAIN q : q[i] \notin D PROVE Ahead(r, S, D)
    <2>1. n \in DOMAIN r /\ r[n] \in S /\ \A j \in 1..(n - 1) : r[j] \notin D
      BY <1>1, <1>3
    <2> QED BY <2>1 DEF Ahead
  <1> QED BY <1>2, <1>3 DEF r

LEMMA AheadTail ==
  ASSUME NEW T, NEW q \in Seq(T), q # <<>>, NEW S, NEW D, Ahead(q, S, D)
  PROVE  /\ Head(q) \in S \/ Head(q) \notin D
         /\ Head(q) \notin S => Ahead(Tail(q), S, D)
  <1> DEFINE r == Tail(q)
             h == Head(q)
             n == Len(q)
  <1>1. /\ n \in Nat /\ DOMAIN q = 1..n /\ q[1] = h /\ DOMAIN r = 1..(n - 1)
        /\ \A i \in DOMAIN r : i + 1 \in DOMAIN q /\ r[i] = q[i + 1]
    OBVIOUS
  <1> HIDE DEF r, h, n
  <1>2. PICK i \in DOMAIN q : q[i] \in S /\ \A j \in 1..(i - 1) : q[j] \notin D
    BY DEF Ahead
  <1>3. h \in S \/ h \notin D
    BY <1>1, <1>2
  <1>4. ASSUME h \notin S PROVE Ahead(r, S, D)
    <2>1. i # 1 /\ i - 1 \in DOMAIN r /\ r[i - 1] = q[i]
      BY <1>1, <1>2, <1>4
    <2>2. ASSUME NEW j \in 1..((i - 1) - 1) PROVE r[j] \notin D
      <3>1. j \in DOMAIN r /\ j + 1 \in 1..(i - 1)
        BY <1>1, <1>2, <2>2
      <3> QED BY <1>1, <1>2, <3>1
    <2> QED BY <1>2, <2>1, <2>2 DEF Ahead
  <1> QED BY <1>3, <1>4 DEF r, h

\* The first entry is replaced by one that is not in D, and was not in S.
LEMMA AheadHead ==
  ASSUME NEW T, NEW q \in Seq(T), q # <<>>, NEW a, NEW S, NEW D, a \notin D,
         Head(q) \notin S, Ahead(q, S, D)
  PROVE  Ahead([q EXCEPT ![1] = a], S, D)
  <1> DEFINE r == [q EXCEPT ![1] = a]
             h == Head(q)
  <1>1. /\ DOMAIN r = DOMAIN q /\ r[1] = a /\ q[1] = h
        /\ \A i \in DOMAIN q : i # 1 => r[i] = q[i]
        /\ \A i \in DOMAIN q : i \in Nat /\ 1..(i - 1) \subseteq DOMAIN q
    OBVIOUS
  <1> HIDE DEF r, h
  <1>2. PICK i \in DOMAIN q : q[i] \in S /\ \A j \in 1..(i - 1) : q[j] \notin D
    BY DEF Ahead
  <1>3. i # 1 /\ r[i] \in S
    BY <1>1, <1>2 DEF h
  <1>4. \A j \in 1..(i - 1) : r[j] \notin D
    BY <1>1, <1>2
  <1>5. Ahead(r, S, D)
    BY <1>1, <1>3, <1>4 DEF Ahead
  <1> QED BY <1>5 DEF r

LEMMA AheadAny ==
  ASSUME NEW q, NEW i \in DOMAIN q, NEW S, q[i] \in S, NEW D,
         \A d \in D : ~Queued(q, d), DOMAIN q \subseteq Nat, \A j \in DOMAIN q : 1..(j - 1) \subseteq DOMAIN q
  PROVE  Ahead(q, S, D)
  <1>1. \A j \in 1..(i - 1) : q[j] \notin D
    BY DEF Queued
  <1> QED BY <1>1 DEF Ahead

\* What the operations of Wired leave of that.
LEMMA AheadPushW ==
  ASSUME TypeOK, NEW s \in Side, NEW e \in WiredEvent, PushW(s, e), NEW x \in Side,
         NEW S, NEW D, Ahead(wq[x], S, D)
  PROVE  Ahead(wq'[x], S, D)
  <1>1. wq \in [Side -> Seq(WiredEvent)] /\ wq[x] \in Seq(WiredEvent)
    BY DEF TypeOK
  <1>2. wq'[x] = wq[x] \/ wq'[x] = Append(wq[x], e)
    BY <1>1 DEF PushW, Pushed
  <1> QED BY <1>1, <1>2, AheadAppend

LEMMA AheadPushU ==
  ASSUME TypeOK, NEW s \in Side, NEW e \in UnwiredEvent, PushU(s, e), NEW x \in Side,
         NEW S, NEW D, Ahead(uq[x], S, D)
  PROVE  Ahead(uq'[x], S, D)
  <1>1. uq \in [Side -> Seq(UnwiredEvent)] /\ uq[x] \in Seq(UnwiredEvent)
    BY DEF TypeOK
  <1>2. uq'[x] = uq[x] \/ uq'[x] = Append(uq[x], e)
    BY <1>1 DEF PushU, Pushed
  <1> QED BY <1>1, <1>2, AheadAppend

LEMMA AheadPopW ==
  ASSUME TypeOK, NEW s \in Side, wq[s] # <<>>, PopW(s), NEW x \in Side,
         NEW S, NEW D, x = s => Head(wq[s]) \notin S, Ahead(wq[x], S, D)
  PROVE  Ahead(wq'[x], S, D)
  <1>1. wq \in [Side -> Seq(WiredEvent)] /\ wq[x] \in Seq(WiredEvent)
    BY DEF TypeOK
  <1>2. wq'[x] = IF x = s THEN Tail(wq[x]) ELSE wq[x]
    BY <1>1 DEF PopW
  <1> QED BY <1>1, <1>2, AheadTail

LEMMA AheadPopU ==
  ASSUME TypeOK, NEW s \in Side, NEW t, HelperAt(s, t), NEW x \in Side,
         NEW S, NEW D, x = s => Head(uq[s]) \notin S, Ahead(uq[x], S, D)
  PROVE  Ahead(uq'[x], S, D)
  <1>1. uq \in [Side -> Seq(UnwiredEvent)] /\ uq[x] \in Seq(UnwiredEvent) /\ uq[s] # <<>>
    BY DEF TypeOK, HelperAt
  <1>2. uq'[x] = IF x = s THEN Tail(uq[x]) ELSE uq[x]
    BY <1>1 DEF HelperAt
  <1> QED BY <1>1, <1>2, AheadTail

LEMMA AheadRead ==
  ASSUME TypeOK, NEW s \in Side, NEW t, Reading(s, t), NEW x \in Side,
         NEW S, NEW D, x = Peer(s) => Head(net[Peer(s)]) \notin S, Ahead(net[x], S, D)
  PROVE  Ahead(net'[x], S, D)
  <1>1. net \in [Side -> Seq(WiringEvent)] /\ net[x] \in Seq(WiringEvent) /\ net[Peer(s)] # <<>>
    BY DEF TypeOK, Reading
  <1>2. net'[x] = IF x = Peer(s) THEN Tail(net[x]) ELSE net[x]
    BY <1>1 DEF Reading
  <1> QED BY <1>1, <1>2, AheadTail

LEMMA AheadSend ==
  ASSUME TypeOK, NEW s \in Side, NEW e \in WiringEvent,
         net' = [net EXCEPT ![s] = Append(@, e)], NEW x \in Side,
         NEW S, NEW D, Ahead(net[x], S, D)
  PROVE  Ahead(net'[x], S, D)
  <1>1. net \in [Side -> Seq(WiringEvent)] /\ net[x] \in Seq(WiringEvent)
    BY DEF TypeOK
  <1>2. net'[x] = IF x = s THEN Append(net[x], e) ELSE net[x]
    BY <1>1
  <1> QED BY <1>1, <1>2, AheadAppend

-----------------------------------------------------------------------------
(* The first message of a stream is under way.                              *)

DropsOf(k) == {Drop(k, b) : b \in BOOLEAN}
DataIn(k) == {Data(k, n) : n \in Nat \ {0}}

\* Of stream k of side s a message is on its way: it is in the writer's channel and will be
\* announced, or on the transport, or in the helper's queue, and no drop of the stream is
\* ahead of it that would stop it.
FirstOnWay(s, k) ==
  LET p == Peer(s)
      m == Mirror(k)
  IN  /\ ~WDropped(p, m) /\ Sink(p, m)
      /\ \/ /\ RxAlive(s, k) /\ ~NDropped(s, k) /\ ~UDropped(p, m)
            /\ pend[s][k] \/ Ahead(wq[s], {Message(k)}, DropsOf(k))
         \/ Ahead(net[s], DataIn(m), {DropFrame(m)}) /\ ~UDropped(p, m)
         \/ Ahead(uq[p], DataIn(m), DropsOf(m))

\* So it is as long as the read half is held and has been given nothing, though the writer's
\* side has let the stream go.
Awaits(s, k) ==
  flushed[s][k] > 0 /\ arr[Peer(s)][Mirror(k)] = <<>> /\ ~Gone(Peer(s), Mirror(k))
WayKey(s, k) == Gone(s, k) /\ Awaits(s, k) => FirstOnWay(s, k)

\* An application has the halves of every stream that is open on its side.
Placed == \A s \in Side, k \in Key : Opened(s, k) => wh[s][k] # "none" /\ rh[s][k] # "none"

LEMMA Drops ==
  ASSUME NEW q, NEW k
  PROVE  /\ (\A d \in DropsOf(k) : ~Queued(q, d)) <=>
              ~Queued(q, Drop(k, TRUE)) /\ ~Queued(q, Drop(k, FALSE))
         /\ Drop(k, TRUE) \in DropsOf(k) /\ Drop(k, FALSE) \in DropsOf(k)
  <1>1. DropsOf(k) = {Drop(k, TRUE), Drop(k, FALSE)}
    BY DEF DropsOf
  <1> QED BY <1>1

LEMMA QueueDomain ==
  ASSUME NEW T, NEW q \in Seq(T)
  PROVE  DOMAIN q \subseteq Nat /\ \A j \in DOMAIN q : 1..(j - 1) \subseteq DOMAIN q
  OBVIOUS

\* An entry of a queue that carries messages of stream k.
LEMMA CarriesData ==
  ASSUME NEW q, q \in Seq(UnwiredEvent) \/ q \in Seq(WiringEvent), NEW k \in Key,
         NEW a \in Nat, NEW b \in Nat, a < b, Carries(q, k, a, b)
  PROVE  \E i \in DOMAIN q : q[i] \in DataIn(k)
  <1>1. a + 1 \in (a + 1)..b
    OBVIOUS
  <1>2. PICK i \in DataOf(q, k) : q[i].n = a + 1
    BY <1>1, CarriesMember
  <1>3. i \in DOMAIN q /\ q[i].t = "data" /\ q[i].k = k
    BY DEF DataOf
  <1>4. q[i] \in UnwiredEvent \/ q[i] \in WiringEvent
    BY <1>3
  <1>5. q[i] \in [t : {"data"}, k : Key, n : Nat \ {0}]
    BY <1>3, <1>4 DEF UnwiredEvent, WiringEvent, None, EventFrame
  <1>6. q[i] = Data(k, q[i].n) /\ q[i].n \in Nat \ {0}
    BY <1>3, <1>5 DEF Data
  <1> QED BY <1>3, <1>6 DEF DataIn

\* While both ends hold the stream, nothing of it is dropped, so the messages that have not
\* been delivered are on their way.
LEMMA HeldOnWay ==
  ASSUME HeldInv, Placed, Up, NEW s \in Side, NEW k \in Key, ~Gone(s, k), Awaits(s, k)
  PROVE  FirstOnWay(s, k)
  <1> DEFINE p == Peer(s)
             m == Mirror(k)
  <1>1. /\ p \in Side /\ m \in Key /\ Peer(p) = s /\ Mirror(m) = k
    BY PeerSide, MirrorKey
  <1> flushed[s][k] > 0 /\ arr[p][m] = <<>> /\ ~Gone(p, m)
    BY DEF Awaits
  <1> HIDE DEF p, m
  <1> USE <1>1
  <1>2. ~Parted(s, k) /\ ~Parted(p, m) /\ TornKey(s, k) /\ TornKey(p, m)
    BY DEF Parted, HeldInv, TornInv, p, m
  <1>3. /\ ~WDropped(s, k) /\ ~UDropped(p, m) /\ ~WDropped(p, m) /\ ~NDropped(s, k)
        /\ Source(s, k) /\ Sink(p, m)
    BY <1>2 DEF TornKey
  <1>4. /\ flushed[s][k] \in Nat /\ wq[s] \in Seq(WiredEvent) /\ uq[p] \in Seq(UnwiredEvent)
        /\ net[s] \in Seq(WiringEvent) /\ wbuf[s][k] \in Seq(Nat \ {0})
        /\ pend[s][k] \in BOOLEAN /\ rh[p][m] \in {"none", "open", "dropped"}
    <2>1. TypeOK
      BY DEF HeldInv
    <2>2. /\ wq[s] \in Seq(WiredEvent) /\ uq[p] \in Seq(UnwiredEvent)
          /\ net[s] \in Seq(WiringEvent)
      BY <2>1 DEF TypeOK
    <2>3. flushed[s][k] \in Nat /\ wbuf[s][k] \in Seq(Nat \ {0})
      BY <2>1 DEF TypeOK
    <2>4. pend[s][k] \in BOOLEAN /\ rh[p][m] \in {"none", "open", "dropped"}
      BY <2>1 DEF TypeOK
    <2> QED BY <2>2, <2>3, <2>4
  <1>5. Opened(s, k) /\ RxAlive(s, k)
    <2>1. OrderedKey(s, k)
      BY DEF HeldInv, OrderedQueues
    <2> QED BY <1>3, <1>4, <2>1 DEF OrderedKey, Untouched, Source
  <1>6. wstate[s] = "open" /\ ustate[p] = "open" /\ ~Down(s)
    BY UpWrites DEF HeldInv, UpInv, UpSide
  <1>7. Intake(p, m)
    BY <1>3, <1>4 DEF Intake, Sink, Placed, Gone, p, m
  <1>8. PICK b \in Nat, c \in Nat : Path(p, m, b, c)
    BY DEF HeldInv, PathInv, PathKey
  <1> DEFINE f == flushed[s][k]
  <1>9. /\ b <= c /\ c <= f /\ Carries(uq[p], m, 0, b) /\ Carries(net[s], m, b, c)
        /\ wbuf[s][k] = [i \in 1..(f - c) |-> c + i]
    <2>1. Len(arr[p][m]) = 0
      OBVIOUS
    <2> QED BY <1>3, <1>6, <1>7, <1>8, <2>1 DEF Path, Flushed, InChannel
  <1>10. CASE 0 < b
    <2>1. PICK i \in DOMAIN uq[p] : uq[p][i] \in DataIn(m)
      BY <1>4, <1>9, <1>10, CarriesData
    <2>2. \A d \in DropsOf(m) : ~Queued(uq[p], d)
      BY <1>3, Drops DEF UDropped
    <2>3. Ahead(uq[p], DataIn(m), DropsOf(m))
      BY <1>4, <2>1, <2>2, AheadAny, QueueDomain
    <2> QED BY <1>3, <2>3 DEF FirstOnWay, p, m
  <1>11. CASE b < c
    <2>1. PICK i \in DOMAIN net[s] : net[s][i] \in DataIn(m)
      BY <1>4, <1>9, <1>11, CarriesData
    <2>2. \A d \in {DropFrame(m)} : ~Queued(net[s], d)
      BY <1>3 DEF NDropped, m
    <2>3. Ahead(net[s], DataIn(m), {DropFrame(m)})
      BY <1>4, <2>1, <2>2, AheadAny, QueueDomain
    <2> QED BY <1>3, <2>3 DEF FirstOnWay, p, m
  <1>12. CASE c = 0
    <2>1. Len(wbuf[s][k]) = f
      BY <1>4, <1>9, <1>12
    <2>2. Due(s, k) = f
      BY <1>5, <1>6, <2>1 DEF HeldInv, Announced, AnnouncedKey
    <2>3. pend[s][k] \/ Queued(wq[s], Message(k))
      <3>1. CASE pend[s][k]
        BY <3>1
      <3>2. CASE ~pend[s][k]
        <4>1. CountOf(wq[s], Message(k)) + 0 = f /\ f # 0
          BY <1>4, <2>2, <3>2 DEF Due
        <4>2. CountOf(wq[s], Message(k)) # 0
          BY <4>1
        <4> QED BY <1>4, <4>2, CountType
      <3> QED BY <3>1, <3>2
    <2>4. ASSUME Queued(wq[s], Message(k)) PROVE Ahead(wq[s], {Message(k)}, DropsOf(k))
      <3>1. PICK i \in DOMAIN wq[s] : wq[s][i] = Message(k)
        BY <2>4 DEF Queued
      <3>2. \A d \in DropsOf(k) : ~Queued(wq[s], d)
        BY <1>3, Drops DEF WDropped
      <3> QED BY <1>4, <3>1, <3>2, AheadAny, QueueDomain
    <2> QED BY <1>3, <1>5, <2>3, <2>4 DEF FirstOnWay, p, m
  <1> QED BY <1>4, <1>9, <1>10, <1>11, <1>12

-----------------------------------------------------------------------------
(* A message on its way stays so, until it is delivered.                    *)

\* A step brings no drop of stream k of side s that would stop its messages.
ClearKept(s, k) ==
  LET p == Peer(s)
      m == Mirror(k)
  IN  /\ WDropped(p, m)' => WDropped(p, m)
      /\ Sink(p, m) => Sink(p, m)'
      /\ RxAlive(s, k) => RxAlive(s, k)'
      /\ NDropped(s, k)' => NDropped(s, k)
      /\ UDropped(p, m)' => UDropped(p, m)

\* Nor does it take one of its messages off a queue.
OnWayKept(s, k) ==
  LET p == Peer(s)
      m == Mirror(k)
  IN  /\ Ahead(wq[s], {Message(k)}, DropsOf(k)) => Ahead(wq'[s], {Message(k)}, DropsOf(k))
      /\ Ahead(net[s], DataIn(m), {DropFrame(m)}) => Ahead(net'[s], DataIn(m), {DropFrame(m)})
      /\ Ahead(uq[p], DataIn(m), DropsOf(m)) => Ahead(uq'[p], DataIn(m), DropsOf(m))

LEMMA WayStill ==
  ASSUME NEW s \in Side, NEW k \in Key, FirstOnWay(s, k), ~pend[s][k],
         ClearKept(s, k), OnWayKept(s, k)
  PROVE  FirstOnWay(s, k)'
  BY DEF FirstOnWay, ClearKept, OnWayKept

LEMMA StillClear ==
  ASSUME TypeOK, TypeOK', OpenedOnce, OrderedQueues, [Next]_vars, NEW s \in Side, NEW k \in Key,
         Still(s, k), Still(Peer(s), Mirror(k))
  PROVE  ClearKept(s, k)
  <1>1. RxAlive(s, k) => RxAlive(s, k)'
    <2>1. RxAlive(s, k) => Opened(s, k) /\ Opened(s, k)'
      BY KnownOpened, OpenedStays
    <2> QED BY <2>1 DEF Still, MapsStill, Source
  <1> QED BY <1>1 DEF Still, DropsStill, MapsStill, ClearKept, WDropped, UDropped

\* Entries that are no message of stream k.
LEMMA NotMessage ==
  ASSUME NEW k, NEW j
  PROVE  /\ Register(j) \notin DataIn(k) /\ None \notin DataIn(k) /\ OpenFrame(j) \notin DataIn(k)
         /\ EventFrame \notin DataIn(k) /\ DropFrame(j) \notin DataIn(k)
         /\ \A b : Drop(j, b) \notin DataIn(k) /\ Drop(j, b) # Message(k)
         /\ Register(j) # Message(k) /\ Event(j) # Message(k)
         /\ \A n : Data(j, n) \in DataIn(k) => j = k
         /\ Message(j) = Message(k) => j = k
         /\ \A e : e.t # "data" => e \notin DataIn(k)
         /\ \A e : e.t # "message" => e # Message(k)
         /\ \A e : e \in DataIn(k) => e.t = "data" /\ e.k = k
         /\ Event(j) \notin DropsOf(k) /\ \A b : Drop(j, b) \in DropsOf(k) => j = k
         /\ \A e : e \in DropsOf(k) => e.t = "drop" /\ e.k = k
  <1>1. /\ None.t = "none" /\ EventFrame.t = "event"
        /\ Register(j).t = "register" /\ OpenFrame(j).t = "open" /\ DropFrame(j).t = "drop"
        /\ Event(j).t = "event" /\ Message(k).t = "message" /\ Message(k).k = k
        /\ Message(j).k = j
        /\ \A b : Drop(j, b).t = "drop" /\ Drop(j, b).k = j /\ Drop(k, b).t = "drop" /\ Drop(k, b).k = k
        /\ \A n : Data(j, n).k = j /\ Data(k, n).k = k /\ Data(k, n).t = "data"
    BY DEF None, EventFrame, Register, OpenFrame, DropFrame, Event, Message, Drop, Data
  <1>2. \A e : e \in DataIn(k) => e.t = "data" /\ e.k = k
    BY <1>1 DEF DataIn
  <1>3. \A e : e \in DropsOf(k) => e.t = "drop" /\ e.k = k
    BY <1>1 DEF DropsOf
  <1> QED BY <1>1, <1>2, <1>3

\* The steps of the wired task that take no drop and no message of the stream off its queue.
LEMMA WayWired ==
  ASSUME TypeOK, TypeOK', OpenedOnce, OrderedQueues, UpInv, Up, [Next]_vars,
         NEW s \in Side, NEW k \in Key, NEW x \in Side,
         \/ WiredConnect(x) \/ WiredEventDone(x) \/ WiredRegister(x)
         \/ WiredMessage(x) /\ (x # s \/ Head(wq[x]) # Message(k))
  PROVE  ClearKept(s, k) /\ OnWayKept(s, k)
  <1> DEFINE p == Peer(s)
             m == Mirror(k)
  <1>1. p \in Side /\ m \in Key
    BY PeerSide, MirrorKey
  <1> HIDE DEF p, m
  <1> USE <1>1 DEF wiredVars, helperVars, netVars, halfVars
  <1>2. ASSUME Still(s, k), Still(p, m),
               Ahead(wq[s], {Message(k)}, DropsOf(k)) => Ahead(wq'[s], {Message(k)}, DropsOf(k)),
               Ahead(net[s], DataIn(m), {DropFrame(m)}) => Ahead(net'[s], DataIn(m), {DropFrame(m)}),
               Ahead(uq[p], DataIn(m), DropsOf(m)) => Ahead(uq'[p], DataIn(m), DropsOf(m))
        PROVE  ClearKept(s, k) /\ OnWayKept(s, k)
    BY <1>2, StillClear DEF OnWayKept, p, m
  <1>3. CASE WiredConnect(x)
    <2>1. Still(s, k) /\ Still(p, m)
      BY <1>3, ConnectOpensStream, OpensStill
    <2>2. PICK id \in WireId : /\ id = nextId[x] + 1 /\ PushU(x, Register(Local(id)))
                               /\ net' = [net EXCEPT ![x] = Append(@, OpenFrame(id))]
      BY <1>3, NextIdType, UpWrites DEF WiredConnect, Connected
    <2>3. /\ Register(Local(id)) \in UnwiredEvent /\ OpenFrame(id) \in WiringEvent
      BY EventTypes
    <2>4. /\ wq[x] \in Seq(WiredEvent) /\ wq[s] \in Seq(WiredEvent) /\ wq[x] # <<>>
          /\ Head(wq[x]).t = "event" /\ Head(wq[x]) = wq[x][1] /\ wq \in [Side -> Seq(WiredEvent)]
          /\ Head(wq[x]) \in WiredEvent
      <3>1. WiredAt(x, "event")
        BY <1>3 DEF WiredConnect
      <3>2. /\ wq[x] # <<>> /\ Head(wq[x]) = wq[x][1] /\ Head(wq[x]).t = "event"
            /\ Head(wq[x]) \in WiredEvent
        BY <3>1, HeadW
      <3> QED BY <3>2 DEF TypeOK
    <2>5. PICK n : n = Head(wq[x]).chans - 1
      OBVIOUS
    <2>6. Head(wq[x]) \in [t : {"event"}, chans : 0..MaxChans]
      BY <2>4 DEF WiredEvent, None
    <2>7. wq'[x] = [wq[x] EXCEPT ![1] = Event(n)] /\ (s # x => wq'[s] = wq[s])
      <3>1. wq' = [wq EXCEPT ![x][1].chans = @ - 1]
        BY <1>3 DEF WiredConnect
      <3>2. /\ wq'[x] = [wq[x] EXCEPT ![1] = [wq[x][1] EXCEPT !.chans = @ - 1]]
            /\ s # x => wq'[s] = wq[s]
        BY <2>4, <3>1
      <3>3. [Head(wq[x]) EXCEPT !.chans = @ - 1] = Event(n)
        BY <2>5, <2>6 DEF Event
      <3> QED BY <2>4, <3>2, <3>3
    <2>8. Ahead(wq[s], {Message(k)}, DropsOf(k)) => Ahead(wq'[s], {Message(k)}, DropsOf(k))
      <3>1. Event(n) \notin DropsOf(k) /\ Head(wq[x]) # Message(k)
        BY <2>4, NotMessage
      <3>2. CASE s = x
        BY <2>4, <2>7, <3>1, <3>2, AheadHead
      <3>3. CASE s # x
        BY <2>7, <3>3
      <3> QED BY <3>2, <3>3
    <2> QED BY <1>2, <2>1, <2>2, <2>3, <2>8, AheadSend, AheadPushU
  <1>4. CASE WiredEventDone(x)
    <2>1. Still(s, k) /\ Still(p, m)
      BY <1>4, PlainWired, PlainStill
    <2>2. /\ WiredAt(x, "event") /\ PopW(x) /\ uq' = uq
          /\ net' = [net EXCEPT ![x] = Append(@, EventFrame)]
      BY <1>4, UpWrites DEF WiredEventDone
    <2>3. wq[x] # <<>> /\ Head(wq[x]) # Message(k)
      BY <2>2, NotMessage DEF WiredAt
    <2> QED BY <1>2, <2>1, <2>2, <2>3, AheadSend, AheadPopW, EventTypes
  <1>5. CASE WiredRegister(x)
    <2>1. Still(s, k) /\ Still(p, m)
      BY <1>5, RegisterStill
    <2>2. WiredAt(x, "register") /\ PopW(x) /\ uq' = uq /\ net' = net
      BY <1>5 DEF WiredRegister
    <2>3. wq[x] # <<>> /\ Head(wq[x]) # Message(k)
      BY <2>2, NotMessage DEF WiredAt
    <2> QED BY <1>2, <2>1, <2>2, <2>3, AheadPopW
  <1>6. CASE WiredMessage(x) /\ (x # s \/ Head(wq[x]) # Message(k))
    <2>1. Still(s, k) /\ Still(p, m)
      BY <1>6, PlainWired, PlainStill
    <2>2. PICK j \in Key :
             /\ wq[x] # <<>> /\ PopW(x)
             /\ \/ /\ Data(Mirror(j), Head(wbuf[x][j])) \in WiringEvent
                   /\ Write(x, Data(Mirror(j), Head(wbuf[x][j])))
                \/ UNCHANGED <<wbuf, wstate, net>>
      BY <1>6, MessageWrites
    <2>3. net' = net \/ \E e \in WiringEvent : net' = [net EXCEPT ![x] = Append(@, e)]
      BY <2>2, UpWrites
    <2>4. uq' = uq
      BY <1>6 DEF WiredMessage
    <2>5. Ahead(wq[s], {Message(k)}, DropsOf(k)) => Ahead(wq'[s], {Message(k)}, DropsOf(k))
      BY <1>6, <2>2, AheadPopW
    <2>6. Ahead(net[s], DataIn(m), {DropFrame(m)}) => Ahead(net'[s], DataIn(m), {DropFrame(m)})
      BY <2>3, AheadSend
    <2> QED BY <1>2, <2>1, <2>4, <2>5, <2>6
  <1> QED BY <1>3, <1>4, <1>5, <1>6

\* The steps of the reader that take no drop and no message of the stream off the transport.
LEMMA WayReader ==
  ASSUME TypeOK, TypeOK', OpenedOnce, OrderedQueues, UpInv, Up, [Next]_vars,
         NEW s \in Side, NEW k \in Key, NEW x \in Side,
         \/ ReadOpen(x) \/ ReadEvent(x)
         \/ ReadMessage(x) /\ (x # Peer(s) \/ Head(net[Peer(x)]).k # Mirror(k))
  PROVE  ClearKept(s, k) /\ OnWayKept(s, k)
  <1> DEFINE p == Peer(s)
             m == Mirror(k)
  <1>1. p \in Side /\ m \in Key /\ Peer(p) = s /\ Peer(x) \in Side /\ Peer(Peer(x)) = x
    BY PeerSide, MirrorKey
  <1> HIDE DEF p, m
  <1> USE <1>1 DEF wiredVars, helperVars, netVars, halfVars
  <1>2. ASSUME Still(s, k), Still(p, m),
               Ahead(wq[s], {Message(k)}, DropsOf(k)) => Ahead(wq'[s], {Message(k)}, DropsOf(k)),
               Ahead(net[s], DataIn(m), {DropFrame(m)}) => Ahead(net'[s], DataIn(m), {DropFrame(m)}),
               Ahead(uq[p], DataIn(m), DropsOf(m)) => Ahead(uq'[p], DataIn(m), DropsOf(m))
        PROVE  ClearKept(s, k) /\ OnWayKept(s, k)
    BY <1>2, StillClear DEF OnWayKept, p, m
  <1>3. CASE ReadOpen(x)
    <2>1. Still(s, k) /\ Still(p, m)
      BY <1>3, ReadOpensStream, OpensStill
    <2>2. PICK id \in WireId :
            /\ Reading(x, "open") /\ PushW(x, Register(Remote(id))) /\ PushU(x, Register(Remote(id)))
      BY <1>3, ReadsId
    <2>3. Head(net[Peer(x)]) \notin DataIn(m)
      BY <2>2, NotMessage DEF Reading
    <2>4. /\ Register(Remote(id)) \in WiredEvent /\ Register(Remote(id)) \in UnwiredEvent
      BY EventTypes
    <2> QED BY <1>2, <2>1, <2>2, <2>3, <2>4, AheadRead, AheadPushW, AheadPushU
  <1>4. CASE ReadEvent(x)
    <2>1. Still(s, k) /\ Still(p, m)
      BY <1>4, PlainReader, PlainStill
    <2>2. Reading(x, "event") /\ wq' = wq /\ uq' = uq
      BY <1>4 DEF ReadEvent
    <2>3. Head(net[Peer(x)]) \notin DataIn(m)
      BY <2>2, NotMessage DEF Reading
    <2> QED BY <1>2, <2>1, <2>2, <2>3, AheadRead
  <1>5. CASE ReadMessage(x) /\ (x # p \/ Head(net[Peer(x)]).k # m)
    <2>1. Still(s, k) /\ Still(p, m)
      BY <1>5, PlainReader, PlainStill
    <2>2. Reading(x, "data") /\ wq' = wq /\ PushU(x, Head(net[Peer(x)]))
      BY <1>5 DEF ReadMessage
    <2>3. Head(net[Peer(x)]) \in UnwiredEvent
      BY <2>2, HeadNet
    <2>4. s = Peer(x) => Head(net[Peer(x)]) \notin DataIn(m)
      <3>1. s = Peer(x) => Head(net[Peer(x)]).k # m
        BY <1>5 DEF p
      <3> QED BY <3>1, NotMessage
    <2> QED BY <1>2, <2>1, <2>2, <2>3, <2>4, AheadRead, AheadPushU
  <1> QED BY <1>3, <1>4, <1>5 DEF p, m

\* The steps of the helper that take no drop and no message of the stream off its queue.
LEMMA WayHelper ==
  ASSUME TypeOK, TypeOK', OpenedOnce, OrderedQueues, UpInv, Up, [Next]_vars,
         NEW s \in Side, NEW k \in Key, NEW x \in Side,
         \/ HelperRegister(x)
         \/ HelperMessage(x) /\ (x # Peer(s) \/ Head(uq[x]).k # Mirror(k))
  PROVE  ClearKept(s, k) /\ OnWayKept(s, k)
  <1> DEFINE p == Peer(s)
             m == Mirror(k)
  <1>1. p \in Side /\ m \in Key
    BY PeerSide, MirrorKey
  <1> HIDE DEF p, m
  <1> USE <1>1 DEF wiredVars, helperVars, netVars, halfVars
  <1>2. Still(s, k) /\ Still(p, m)
    BY PlainHelper, PlainStill, HelperRegisterStill
  <1>3. \E t : HelperAt(x, t) /\ wq' = wq /\ net' = net /\ (x = p => Head(uq[x]) \notin DataIn(m))
    <2>1. CASE HelperRegister(x)
      <3>1. HelperAt(x, "register") /\ wq' = wq /\ net' = net
        BY <2>1 DEF HelperRegister
      <3> QED BY <3>1, NotMessage DEF HelperAt
    <2>2. CASE HelperMessage(x) /\ (x # p \/ Head(uq[x]).k # m)
      <3>1. HelperAt(x, "data") /\ wq' = wq /\ net' = net
        BY <2>2 DEF HelperMessage
      <3> QED BY <2>2, <3>1, NotMessage
    <2> QED BY <2>1, <2>2 DEF p, m
  <1>4. Ahead(uq[p], DataIn(m), DropsOf(m)) => Ahead(uq'[p], DataIn(m), DropsOf(m))
    BY <1>3, AheadPopU
  <1> QED BY <1>2, <1>3, <1>4, StillClear DEF OnWayKept, p, m

\* The steps of the applications that close no half and flush nothing into the stream.
LEMMA WayApp ==
  ASSUME TypeOK, TypeOK', OpenedOnce, OrderedQueues, UpInv, Up, [Next]_vars,
         NEW s \in Side, NEW k \in Key, NEW x \in Side,
         \/ \E n \in 0..MaxChans : Send(x, n)
         \/ \E j \in Key : FlushBegin(x, j) \/ FlushEnd(x, j) \/ PollRead(x, j) \/ PollReadEof(x, j)
  PROVE  ClearKept(s, k) /\ OnWayKept(s, k)
  <1> DEFINE p == Peer(s)
             m == Mirror(k)
  <1>1. p \in Side /\ m \in Key
    BY PeerSide, MirrorKey
  <1> HIDE DEF p, m
  <1> USE <1>1 DEF wiredVars, helperVars, netVars, halfVars
  <1>2. Still(s, k) /\ Still(p, m)
    BY PlainApp, PlainStill
  <1>3. uq' = uq /\ net' = net /\ (wq' = wq \/ \E e \in WiredEvent : PushW(x, e))
    <2>1. ASSUME NEW n \in 0..MaxChans, Send(x, n)
          PROVE  uq' = uq /\ net' = net /\ \E e \in WiredEvent : PushW(x, e)
      BY <2>1, EventTypes DEF Send
    <2>2. ASSUME NEW j \in Key,
                 FlushBegin(x, j) \/ FlushEnd(x, j) \/ PollRead(x, j) \/ PollReadEof(x, j)
          PROVE  uq' = uq /\ net' = net /\ (wq' = wq \/ \E e \in WiredEvent : PushW(x, e))
      BY <2>2, EventTypes DEF FlushBegin, FlushEnd, FlushSend, SendData, SendEvent, PollRead,
                              PollReadEof
    <2> QED BY <2>1, <2>2
  <1>4. Ahead(wq[s], {Message(k)}, DropsOf(k)) => Ahead(wq'[s], {Message(k)}, DropsOf(k))
    BY <1>3, AheadPushW
  <1> QED BY <1>2, <1>3, <1>4, StillClear DEF OnWayKept, p, m

\* The wired task takes the event of the message: it finds the data, and puts it on the
\* transport.
LEMMA WayWritten ==
  ASSUME TypeOK, TypeOK', OpenedOnce, OrderedQueues, Announced, UpInv, Up, [Next]_vars,
         NEW s \in Side, NEW k \in Key, FirstOnWay(s, k), ~pend[s][k],
         WiredMessage(s), Head(wq[s]) = Message(k)
  PROVE  FirstOnWay(s, k)'
  <1> DEFINE p == Peer(s)
             m == Mirror(k)
  <1>1. p \in Side /\ m \in Key
    BY PeerSide, MirrorKey
  <1> HIDE DEF p, m
  <1> USE <1>1 DEF wiredVars, helperVars, netVars, halfVars
  <1>2. Still(s, k) /\ Still(p, m) /\ ClearKept(s, k)
    BY PlainWired, PlainStill, StillClear DEF p, m
  <1>3. /\ WiredAt(s, "message") /\ wq[s] # <<>> /\ PopW(s) /\ uq' = uq
        /\ wq[s] \in Seq(WiredEvent) /\ net[s] \in Seq(WiringEvent)
        /\ net \in [Side -> Seq(WiringEvent)] /\ wbuf \in [Side -> [Key -> Seq(Nat \ {0})]]
    BY DEF WiredMessage, WiredAt, TypeOK
  <1>4. Message(k).k = k /\ Message(k).t = "message"
    BY DEF Message
  <1>5. IF k \in wired[s] /\ wbuf[s][k] # <<>>
        THEN Write(s, Data(m, Head(wbuf[s][k])))
        ELSE UNCHANGED <<wbuf, wstate, net>>
    BY <1>4 DEF WiredMessage, m
  <1>6. ASSUME wbuf[s][k] # <<>>
        PROVE  /\ Head(wbuf[s][k]) \in Nat \ {0}
               /\ Data(m, Head(wbuf[s][k])) \in DataIn(m)
               /\ Data(m, Head(wbuf[s][k])) \in WiringEvent
    <2>1. Head(wbuf[s][k]) \in Nat \ {0}
      BY <1>3, <1>6, ChannelType
    <2> QED BY <2>1, EventTypes DEF DataIn
  <1>7. net' = net \/ net' = [net EXCEPT ![s] = Append(@, Data(m, Head(wbuf[s][k])))]
    BY <1>5, UpWrites
  <1>8. Ahead(net[s], DataIn(m), {DropFrame(m)}) => Ahead(net'[s], DataIn(m), {DropFrame(m)})
    BY <1>5, <1>6, <1>7, AheadSend
  <1>9. ASSUME RxAlive(s, k), ~NDropped(s, k)
        PROVE  Ahead(net'[s], DataIn(m), {DropFrame(m)})
    <2>1. k \in wired[s]
      <3>1. Leads(wq[s], Register(k), k)
        BY DEF OrderedQueues, OrderedKey
      <3>2. About(Head(wq[s]), k) /\ Head(wq[s]) # Register(k)
        BY <1>4 DEF About, Register
      <3>3. ~Queued(wq[s], Register(k))
        BY <1>3, <3>1, <3>2, DropBeforeNone
      <3> QED BY <1>9, <3>3 DEF RxAlive
    <2>2. wbuf[s][k] # <<>>
      <3>1. Queued(wq[s], Message(k))
        BY <1>3, HeadQueued
      <3>2. CountOf(wq[s], Message(k)) \in Nat /\ CountOf(wq[s], Message(k)) # 0
        BY <1>3, <3>1, CountType
      <3>3. Due(s, k) = CountOf(wq[s], Message(k)) + 0
        BY DEF Due
      <3>4. Due(s, k) <= Len(wbuf[s][k])
        BY <1>9 DEF Announced, AnnouncedKey
      <3>5. Len(wbuf[s][k]) # 0
        BY <1>3, <3>2, <3>3, <3>4
      <3> QED BY <3>5
    <2>3. net' = [net EXCEPT ![s] = Append(@, Data(m, Head(wbuf[s][k])))]
      BY <1>5, <2>1, <2>2, UpWrites
    <2>4. \A i \in DOMAIN net[s] : net[s][i] \notin {DropFrame(m)}
      BY <1>9 DEF NDropped, Queued, m
    <2>5. net'[s] = Append(net[s], Data(m, Head(wbuf[s][k])))
      BY <1>3, <2>3
    <2> QED BY <1>3, <1>6, <2>2, <2>4, <2>5, AheadAppend
  <1> QED BY <1>2, <1>3, <1>8, <1>9 DEF FirstOnWay, ClearKept, p, m

\* The reader takes the message off the transport: it goes into the helper's queue.
LEMMA WayRead ==
  ASSUME TypeOK, TypeOK', OpenedOnce, OrderedQueues, UpInv, Up, [Next]_vars,
         NEW s \in Side, NEW k \in Key, FirstOnWay(s, k), ~pend[s][k],
         ReadMessage(Peer(s)), Head(net[s]).k = Mirror(k)
  PROVE  FirstOnWay(s, k)'
  <1> DEFINE p == Peer(s)
             m == Mirror(k)
  <1>1. p \in Side /\ m \in Key /\ Peer(p) = s
    BY PeerSide, MirrorKey
  <1> HIDE DEF p, m
  <1> USE <1>1 DEF wiredVars, helperVars, netVars, halfVars
  <1>2. Still(s, k) /\ Still(p, m) /\ ClearKept(s, k)
    BY PlainReader, PlainStill, StillClear DEF p, m
  <1>3. Reading(p, "data") /\ PushU(p, Head(net[s])) /\ wq' = wq
    BY DEF ReadMessage, p
  <1>4. Head(net[s]) \in UnwiredEvent /\ Head(net[s]) \in DataIn(m)
    <2>1. Head(net[s]) \in UnwiredEvent /\ Head(net[s]).t = "data" /\ Head(net[s]).k = m
      BY <1>3, HeadNet DEF m
    <2>2. Head(net[s]) \in [t : {"data"}, k : Key, n : Nat \ {0}]
      BY <2>1 DEF UnwiredEvent, None
    <2>3. Head(net[s]) = Data(m, Head(net[s]).n) /\ Head(net[s]).n \in Nat \ {0}
      BY <2>1, <2>2 DEF Data
    <2> QED BY <2>1, <2>3 DEF DataIn
  <1>5. Ahead(uq[p], DataIn(m), DropsOf(m)) => Ahead(uq'[p], DataIn(m), DropsOf(m))
    BY <1>3, <1>4, AheadPushU
  <1>6. ASSUME ~UDropped(p, m) PROVE Ahead(uq'[p], DataIn(m), DropsOf(m))
    <2>1. uq \in [Side -> Seq(UnwiredEvent)] /\ uq[p] \in Seq(UnwiredEvent) /\ ustate[p] = "open"
      BY DEF TypeOK, UpInv, UpSide
    <2>2. uq'[p] = Append(uq[p], Head(net[s]))
      BY <1>3, <2>1 DEF PushU, Pushed
    <2>3. \A i \in DOMAIN uq[p] : uq[p][i] \notin DropsOf(m)
      <3>1. \A d \in DropsOf(m) : ~Queued(uq[p], d)
        BY <1>6, Drops DEF UDropped
      <3> QED BY <3>1 DEF Queued
    <2> QED BY <1>4, <2>1, <2>2, <2>3, AheadAppend
  <1> QED BY <1>2, <1>3, <1>5, <1>6 DEF FirstOnWay, ClearKept, p, m

\* The helper takes a message of the stream off its queue: it is delivered.
LEMMA WayDelivered ==
  ASSUME TypeOK, OpenedOnce, OrderedQueues, Placed,
         NEW s \in Side, NEW k \in Key, FirstOnWay(s, k),
         ~Gone(Peer(s), Mirror(k)),
         HelperMessage(Peer(s)), Head(uq[Peer(s)]).k = Mirror(k)
  PROVE  arr'[Peer(s)][Mirror(k)] # <<>>
  <1> DEFINE p == Peer(s)
             m == Mirror(k)
  <1>1. p \in Side /\ m \in Key
    BY PeerSide, MirrorKey
  <1> HIDE DEF p, m
  <1> USE <1>1
  <1>2. /\ HelperAt(p, "data") /\ uq[p] # <<>> /\ uq[p] \in Seq(UnwiredEvent)
        /\ Head(uq[p]).t = "data" /\ Head(uq[p]).k = m
        /\ arr \in [Side -> [Key -> Seq(Nat \ {0})]] /\ rh[p][m] \in {"none", "open", "dropped"}
    BY DEF HelperMessage, HelperAt, TypeOK, p, m
  <1>3. About(Head(uq[p]), m) /\ Head(uq[p]) # Register(m)
    BY <1>2 DEF About, Register
  <1>4. Opened(p, m)
    BY <1>2, <1>3, CalmTail, KnownOpened
  <1>5. m \in helper[p]
    <2>1. Leads(uq[p], Register(m), m)
      BY DEF OrderedQueues, OrderedKey
    <2>2. ~Queued(uq[p], Register(m))
      BY <1>2, <1>3, <2>1, DropBeforeNone
    <2>3. TxAlive(p, m)
      BY <1>4 DEF FirstOnWay, Sink, p, m
    <2> QED BY <2>2, <2>3 DEF TxAlive
  <1>6. rh[p][m] = "open"
    BY <1>2, <1>4 DEF Placed, Gone, p, m
  <1>7. arr' = [arr EXCEPT ![p][m] = Append(@, Head(uq[p]).n)]
    BY <1>2, <1>5, <1>6 DEF HelperMessage, p, m
  <1>8. arr'[p][m] = Append(arr[p][m], Head(uq[p]).n) /\ arr[p][m] \in Seq(Nat \ {0})
    BY <1>2, <1>7
  <1>9. Head(uq[p]).n \in Nat \ {0}
    BY <1>2, HeadU
  <1>10. \A q \in Seq(Nat \ {0}), n \in Nat \ {0} : Append(q, n) # <<>>
    OBVIOUS
  <1> QED BY <1>8, <1>9, <1>10 DEF p, m

\* A half of another stream, or of this one on the writer's side, is closed or dropped.
LEMMA WayHalf ==
  ASSUME TypeOK, TypeOK', OpenedOnce, OrderedQueues, UpInv, Up, [Next]_vars,
         NEW s \in Side, NEW k \in Key, NEW x \in Side, NEW j \in Key,
         ShutWrite(x, j) \/ DropWrite(x, j) \/ DropRead(x, j), x # Peer(s) \/ j # Mirror(k)
  PROVE  ClearKept(s, k) /\ OnWayKept(s, k)
  <1> DEFINE p == Peer(s)
             m == Mirror(k)
  <1>1. p \in Side /\ m \in Key
    BY PeerSide, MirrorKey
  <1>2. x # p \/ j # m
    OBVIOUS
  <1> HIDE DEF p, m
  <1> USE <1>1 DEF wiredVars, helperVars, netVars, halfVars
  <1>3. /\ PushW(x, Drop(j, TRUE)) /\ Drop(j, TRUE) \in WiredEvent /\ wstate[x] = "open"
        /\ UNCHANGED <<wired, uq, net, nextId, helper>>
    BY EventTypes DEF ShutWrite, DropWrite, DropRead, UpInv, UpSide
  <1>4. ASSUME NEW y \in Side, NEW f
        PROVE  Queued(wq'[y], f) <=> Queued(wq[y], f) \/ (y = x /\ f = Drop(j, TRUE))
    BY <1>3, PushWHolds
  <1>5. WDropped(p, m)' => WDropped(p, m)
    <2>1. Drop(m, FALSE) # Drop(j, TRUE) /\ (Drop(m, TRUE) = Drop(j, TRUE) => m = j)
      BY SignalsDiffer
    <2> QED BY <1>2, <1>4, <2>1 DEF WDropped
  <1>6. Sink(p, m)' <=> Sink(p, m)
    BY <1>3, OpenedStill DEF Sink, TxAlive
  <1>7. RxAlive(s, k) => RxAlive(s, k)'
    BY <1>3, <1>4 DEF RxAlive
  <1>8. ClearKept(s, k)
    BY <1>3, <1>5, <1>6, <1>7 DEF ClearKept, NDropped, UDropped, p, m
  <1>9. Ahead(wq[s], {Message(k)}, DropsOf(k)) => Ahead(wq'[s], {Message(k)}, DropsOf(k))
    BY <1>3, AheadPushW
  <1> QED BY <1>3, <1>8, <1>9 DEF OnWayKept

\* The reader takes a drop off the transport.
LEMMA WayReadDrop ==
  ASSUME TypeOK, TypeOK', OpenedOnce, OrderedQueues, UpInv, Up, [Next]_vars,
         NEW s \in Side, NEW k \in Key, FirstOnWay(s, k), ~pend[s][k],
         NEW x \in Side, ReadDrop(x)
  PROVE  FirstOnWay(s, k)'
  <1> DEFINE p == Peer(s)
             m == Mirror(k)
  <1>1. p \in Side /\ m \in Key /\ Peer(p) = s /\ Peer(x) \in Side /\ (Peer(x) = s <=> x = p)
    BY PeerSide, MirrorKey
  <1> HIDE DEF p, m
  <1> USE <1>1 DEF wiredVars, helperVars, netVars, halfVars
  <1>2. /\ Reading(x, "drop") /\ UNCHANGED <<wq, wired, nextId, helper, pend>> /\ ustate[x] = "open"
        /\ PushU(x, Drop(Head(net[Peer(x)]).k, TRUE))
    BY DEF ReadDrop, UpInv, UpSide
  <1>3. /\ Head(net[Peer(x)]) \in WiringEvent /\ Head(net[Peer(x)]).t = "drop"
        /\ Head(net[Peer(x)]).k \in Key /\ net[Peer(x)] # <<>>
    BY <1>2, HeadNet
  <1> PICK j \in Key : j = Head(net[Peer(x)]).k
    BY <1>3
  <1>4. Head(net[Peer(x)]) = DropFrame(j)
    BY <1>3 DEF WiringEvent, EventFrame, DropFrame
  <1>5. Drop(j, TRUE) \in UnwiredEvent
    BY EventTypes
  <1>6. ASSUME NEW y \in Side, NEW f
        PROVE  /\ Queued(net[y], f) <=> Queued(net'[y], f) \/ (y = Peer(x) /\ f = DropFrame(j))
               /\ Queued(uq'[y], f) <=> Queued(uq[y], f) \/ (y = x /\ f = Drop(j, TRUE))
    <2>1. PushU(x, Drop(j, TRUE))
      BY <1>2
    <2>2. Queued(net[y], f) <=> Queued(net'[y], f) \/ (y = Peer(x) /\ f = DropFrame(j))
      BY <1>2, <1>4, ReadHolds
    <2>3. Queued(uq'[y], f) <=> Queued(uq[y], f) \/ (y = x /\ f = Drop(j, TRUE))
      BY <1>2, <1>5, <2>1, PushUHolds
    <2> QED BY <2>2, <2>3
  <1>7. WDropped(p, m)' <=> WDropped(p, m)
    BY <1>2 DEF WDropped
  <1>8. Sink(p, m)'
    <2>1. Opened(p, m)' <=> Opened(p, m)
      <3>1. DropFrame(j) # OpenFrame(m[1])
        BY SignalsDiffer
      <3> QED BY <1>2, <1>6, <3>1, PeerSide, OpenedStill
    <2>2. TxAlive(p, m) => TxAlive(p, m)'
      BY <1>2, <1>6 DEF TxAlive
    <2> QED BY <2>1, <2>2 DEF FirstOnWay, Sink, p, m
  <1>9. RxAlive(s, k)' <=> RxAlive(s, k)
    BY <1>2 DEF RxAlive
  <1>10. NDropped(s, k)' => NDropped(s, k)
    BY <1>6 DEF NDropped
  <1>11. Ahead(uq[p], DataIn(m), DropsOf(m)) => Ahead(uq'[p], DataIn(m), DropsOf(m))
    BY <1>2, <1>5, AheadPushU
  <1>12. Ahead(net[s], DataIn(m), {DropFrame(m)}) => Ahead(net'[s], DataIn(m), {DropFrame(m)})
    <2>1. Head(net[Peer(x)]) \notin DataIn(m)
      BY <1>4, NotMessage
    <2> QED BY <1>2, <2>1, AheadRead
  <1>13. CASE x = p /\ j = m
    <2>1. Queued(net[s], DropFrame(m))
      BY <1>6, <1>13
    <2>2. NDropped(s, k)
      BY <2>1 DEF NDropped, m
    <2>3. ~Ahead(net[s], DataIn(m), {DropFrame(m)})
      <3>1. Head(net[s]) = DropFrame(m) /\ net[s] # <<>> /\ net[s] \in Seq(WiringEvent)
        BY <1>3, <1>4, <1>13 DEF TypeOK
      <3>2. DropFrame(m) \notin DataIn(m)
        BY NotMessage
      <3> QED BY <3>1, <3>2, AheadTail
    <2>4. Ahead(uq[p], DataIn(m), DropsOf(m))
      BY <2>2, <2>3 DEF FirstOnWay, p, m
    <2> QED BY <1>7, <1>8, <1>11, <2>4 DEF FirstOnWay, p, m
  <1>14. CASE x # p \/ j # m
    <2>1. UDropped(p, m)' => UDropped(p, m)
      <3>1. Drop(m, FALSE) # Drop(j, TRUE) /\ (Drop(m, TRUE) = Drop(j, TRUE) => m = j)
        BY SignalsDiffer
      <3> QED BY <1>6, <1>14, <3>1 DEF UDropped
    <2>2. ClearKept(s, k) /\ OnWayKept(s, k)
      BY <1>2, <1>7, <1>8, <1>9, <1>10, <1>11, <1>12, <2>1 DEF ClearKept, OnWayKept, p, m
    <2> QED BY <2>2, WayStill
  <1> QED BY <1>13, <1>14

\* The helper takes a drop off its queue.
LEMMA WayHelperDrop ==
  ASSUME TypeOK, TypeOK', OpenedOnce, OrderedQueues, UpInv, Up, [Next]_vars,
         NEW s \in Side, NEW k \in Key, FirstOnWay(s, k), ~pend[s][k],
         NEW x \in Side, HelperDrop(x)
  PROVE  FirstOnWay(s, k)'
  <1> DEFINE p == Peer(s)
             m == Mirror(k)
  <1>1. p \in Side /\ m \in Key /\ p # s
    BY PeerSide, MirrorKey
  <1> HIDE DEF p, m
  <1> USE <1>1 DEF wiredVars, helperVars, netVars, halfVars
  <1>2. /\ HelperAt(x, "drop") /\ UNCHANGED <<nextId, wired, net, pend>> /\ wstate[x] = "open"
        /\ helper' = [helper EXCEPT ![x] = @ \ {Head(uq[x]).k}]
        /\ wq' = wq \/ PushW(x, Drop(Head(uq[x]).k, FALSE))
    BY DEF HelperDrop, UpInv, UpSide
  <1>3. /\ uq[x] # <<>> /\ Head(uq[x]).k \in Key /\ Head(uq[x]) \in UnwiredEvent
        /\ Head(uq[x]).t = "drop" /\ Head(uq[x]).broadcast \in BOOLEAN
        /\ uq[x] \in Seq(UnwiredEvent)
    BY <1>2, HeadU DEF TypeOK
  <1> PICK j \in Key : j = Head(uq[x]).k
    BY <1>3
  <1> PICK b \in BOOLEAN : b = Head(uq[x]).broadcast
    BY <1>3
  <1>4. Head(uq[x]) = Drop(j, b)
    <2>1. Head(uq[x]) \in [t : {"drop"}, k : Key, broadcast : BOOLEAN]
      BY <1>3 DEF UnwiredEvent, None
    <2> QED BY <2>1 DEF Drop
  <1>5. Drop(j, FALSE) \in WiredEvent
    BY EventTypes
  <1>6. ~(x = p /\ j = m)
    <2> SUFFICES ASSUME x = p, j = m PROVE FALSE
      OBVIOUS
    <2>1. Queued(uq[p], Drop(m, b))
      BY <1>3, <1>4, HeadQueued
    <2>2. UDropped(p, m)
      BY <2>1 DEF UDropped
    <2>3. Drop(m, b) \in DropsOf(m) /\ Drop(m, b) \notin DataIn(m)
      BY NotMessage DEF DropsOf
    <2>4. ~Ahead(uq[p], DataIn(m), DropsOf(m))
      BY <1>3, <1>4, <2>3, AheadTail
    <2> QED BY <2>2, <2>4 DEF FirstOnWay, p, m
  <1>7. ASSUME NEW y \in Side, NEW f
        PROVE  /\ Queued(uq[y], f) <=> Queued(uq'[y], f) \/ (y = x /\ f = Drop(j, b))
               /\ Queued(wq[y], f) => Queued(wq'[y], f)
               /\ Queued(wq'[y], f) => Queued(wq[y], f) \/ (y = x /\ f = Drop(j, FALSE))
    <2>1. Queued(uq[y], f) <=> Queued(uq'[y], f) \/ (y = x /\ f = Drop(j, b))
      BY <1>2, <1>4, PopUHolds
    <2>2. wq' = wq \/ PushW(x, Drop(j, FALSE))
      BY <1>2
    <2>3. ASSUME PushW(x, Drop(j, FALSE))
          PROVE  Queued(wq'[y], f) <=> Queued(wq[y], f) \/ (y = x /\ f = Drop(j, FALSE))
      BY <1>2, <1>5, <2>3, PushWHolds
    <2> QED BY <2>1, <2>2, <2>3
  <1>8. WDropped(p, m)' => WDropped(p, m)
    <2>1. Drop(m, TRUE) # Drop(j, FALSE) /\ (Drop(m, FALSE) = Drop(j, FALSE) => m = j)
      BY SignalsDiffer
    <2> QED BY <1>6, <1>7, <2>1 DEF WDropped
  <1>9. Sink(p, m)'
    <2>1. Opened(p, m)' <=> Opened(p, m)
      BY <1>2, OpenedStill
    <2>2. TxAlive(p, m) => TxAlive(p, m)'
      <3>1. Register(m) # Drop(j, b)
        BY SignalsDiffer
      <3>2. Queued(uq[p], Register(m)) => Queued(uq'[p], Register(m))
        BY <1>7, <3>1
      <3>3. helper \in [Side -> SUBSET Key]
        BY DEF TypeOK
      <3>4. m \in helper[p] => m \in helper'[p]
        BY <1>2, <1>6, <3>3
      <3> QED BY <3>2, <3>4 DEF TxAlive
    <2> QED BY <2>1, <2>2 DEF FirstOnWay, Sink, p, m
  <1>10. RxAlive(s, k) => RxAlive(s, k)'
    BY <1>2, <1>7 DEF RxAlive
  <1>11. NDropped(s, k)' <=> NDropped(s, k)
    BY <1>2 DEF NDropped
  <1>12. UDropped(p, m)' => UDropped(p, m)
    BY <1>7 DEF UDropped
  <1>13. Ahead(uq[p], DataIn(m), DropsOf(m)) => Ahead(uq'[p], DataIn(m), DropsOf(m))
    <2>1. Head(uq[x]) \notin DataIn(m)
      <3>1. Drop(j, b).t # "data"
        BY DEF Drop
      <3>2. \A e : e.t # "data" => e \notin DataIn(m)
        BY NotMessage
      <3> QED BY <1>4, <3>1, <3>2
    <2> QED BY <1>2, <2>1, AheadPopU
  <1>14. Ahead(wq[s], {Message(k)}, DropsOf(k)) => Ahead(wq'[s], {Message(k)}, DropsOf(k))
    BY <1>2, <1>5, AheadPushW
  <1>15. ClearKept(s, k) /\ OnWayKept(s, k)
    BY <1>2, <1>8, <1>9, <1>10, <1>11, <1>12, <1>13, <1>14 DEF ClearKept, OnWayKept, p, m
  <1> QED BY <1>15, WayStill

\* The wired task takes a drop off its queue: that of the writer's side comes after the
\* message.
LEMMA WayWiredDrop ==
  ASSUME TypeOK, TypeOK', OpenedOnce, OrderedQueues, UpInv, Up, [Next]_vars,
         NEW s \in Side, NEW k \in Key, FirstOnWay(s, k), ~pend[s][k],
         NEW x \in Side, WiredDrop(x)
  PROVE  FirstOnWay(s, k)'
  <1> DEFINE p == Peer(s)
             m == Mirror(k)
  <1>1. p \in Side /\ m \in Key /\ p # s
    BY PeerSide, MirrorKey
  <1> HIDE DEF p, m
  <1> USE <1>1 DEF wiredVars, helperVars, netVars, halfVars
  <1>2. PICK j \in Key :
          /\ WiredAt(x, "drop") /\ wq[x] # <<>> /\ PopW(x) /\ Head(wq[x]).k = j
          /\ \/ /\ j \in wired[x] /\ PushU(x, Drop(j, FALSE))
                /\ wired' = [wired EXCEPT ![x] = @ \ {j}]
                /\ wbuf' = [wbuf EXCEPT ![x][j] = <<>>]
                /\ \/ Write(x, DropFrame(Mirror(j)))
                   \/ UNCHANGED <<wstate, net>>
             \/ UNCHANGED <<wired, wbuf, uq, wstate, net>>
    BY DropWrites
  <1>3. /\ Head(wq[x]) = Drop(j, Head(wq[x]).broadcast) /\ Head(wq[x]).broadcast \in BOOLEAN
        /\ wq[x] \in Seq(WiredEvent) /\ wq \in [Side -> Seq(WiredEvent)]
    BY <1>2, HeadW DEF TypeOK
  <1> PICK b \in BOOLEAN : b = Head(wq[x]).broadcast
    BY <1>3
  <1>4. UNCHANGED <<nextId, helper, pend>> /\ ustate[x] = "open" /\ helper' = helper
    BY DEF WiredDrop, UpInv, UpSide
  <1>5. /\ Drop(j, FALSE) \in UnwiredEvent /\ DropFrame(Mirror(j)) \in WiringEvent
        /\ Mirror(j) \in Key
    BY MirrorKey, EventTypes
  <1>6. net' = net \/ net' = [net EXCEPT ![x] = Append(@, DropFrame(Mirror(j)))]
    BY <1>2, UpWrites
  <1>7. uq' = uq \/ PushU(x, Drop(j, FALSE))
    BY <1>2
  <1>8. ASSUME NEW y \in Side, NEW f
        PROVE  /\ Queued(wq[y], f) <=> Queued(wq'[y], f) \/ (y = x /\ f = Drop(j, b))
               /\ Queued(uq[y], f) => Queued(uq'[y], f)
               /\ Queued(uq'[y], f) => Queued(uq[y], f) \/ (y = x /\ f = Drop(j, FALSE))
               /\ Queued(net[y], f) => Queued(net'[y], f)
               /\ Queued(net'[y], f) => Queued(net[y], f) \/ (y = x /\ f = DropFrame(Mirror(j)))
    <2>1. Queued(wq[y], f) <=> Queued(wq'[y], f) \/ (y = x /\ f = Drop(j, b))
      BY <1>2, <1>3, PopWHolds
    <2>2. ASSUME PushU(x, Drop(j, FALSE))
          PROVE  Queued(uq'[y], f) <=> Queued(uq[y], f) \/ (y = x /\ f = Drop(j, FALSE))
      BY <1>4, <1>5, <2>2, PushUHolds
    <2>3. ASSUME net' = [net EXCEPT ![x] = Append(@, DropFrame(Mirror(j)))]
          PROVE  Queued(net'[y], f) <=> Queued(net[y], f) \/ (y = x /\ f = DropFrame(Mirror(j)))
      BY <1>5, <2>3, SendHolds
    <2> QED BY <1>6, <1>7, <2>1, <2>2, <2>3
  <1>9. ~(x = p /\ j = m)
    <2> SUFFICES ASSUME x = p, j = m PROVE FALSE
      OBVIOUS
    <2>1. Queued(wq[p], Drop(m, b))
      BY <1>8
    <2> QED BY <2>1 DEF FirstOnWay, WDropped, p, m
  <1>10. WDropped(p, m)' => WDropped(p, m)
    BY <1>8 DEF WDropped
  <1>11. Sink(p, m)'
    <2>1. Opened(p, m)' <=> Opened(p, m)
      <3>1. DropFrame(Mirror(j)) # OpenFrame(m[1])
        BY SignalsDiffer
      <3> QED BY <1>4, <1>8, <3>1, PeerSide, OpenedStill
    <2>2. TxAlive(p, m) => TxAlive(p, m)'
      BY <1>4, <1>8 DEF TxAlive
    <2> QED BY <2>1, <2>2 DEF FirstOnWay, Sink, p, m
  <1>12. UDropped(p, m)' => UDropped(p, m)
    <2>1. Drop(m, TRUE) # Drop(j, FALSE) /\ (Drop(m, FALSE) = Drop(j, FALSE) => m = j)
      BY SignalsDiffer
    <2> QED BY <1>8, <1>9, <2>1 DEF UDropped
  <1>13. Ahead(uq[p], DataIn(m), DropsOf(m)) => Ahead(uq'[p], DataIn(m), DropsOf(m))
    BY <1>5, <1>7, AheadPushU
  <1>14. Ahead(net[s], DataIn(m), {DropFrame(m)}) => Ahead(net'[s], DataIn(m), {DropFrame(m)})
    BY <1>5, <1>6, AheadSend
  <1>15. Head(wq[x]) # Message(k)
    <2>1. Drop(j, b) # Message(k)
      BY NotMessage
    <2> QED BY <1>3, <2>1
  <1>16. CASE x = s /\ j = k
    <2>1. ~Ahead(wq[s], {Message(k)}, DropsOf(k))
      <3>1. Drop(k, b) \in DropsOf(k)
        BY DEF DropsOf
      <3> QED BY <1>2, <1>3, <1>15, <1>16, <3>1, AheadTail
    <2> QED BY <1>10, <1>11, <1>12, <1>13, <1>14, <2>1 DEF FirstOnWay, p, m
  <1>17. CASE x # s \/ j # k
    <2>1. RxAlive(s, k) => RxAlive(s, k)'
      <3>1. Register(k) # Drop(j, b)
        BY SignalsDiffer
      <3>2. wired \in [Side -> SUBSET Key]
        BY DEF TypeOK
      <3>3. k \in wired[s] => k \in wired'[s]
        BY <1>2, <1>17, <3>2
      <3> QED BY <1>8, <3>1, <3>3 DEF RxAlive
    <2>2. NDropped(s, k)' => NDropped(s, k)
      <3>1. DropFrame(m) = DropFrame(Mirror(j)) => j = k
        <4>1. DropFrame(m) = DropFrame(Mirror(j)) => m = Mirror(j)
          BY SignalsDiffer
        <4>2. Mirror(m) = k /\ Mirror(Mirror(j)) = j
          BY MirrorKey DEF m
        <4> QED BY <4>1, <4>2
      <3> QED BY <1>8, <1>17, <3>1 DEF NDropped, m
    <2>3. Ahead(wq[s], {Message(k)}, DropsOf(k)) => Ahead(wq'[s], {Message(k)}, DropsOf(k))
      BY <1>2, <1>15, AheadPopW
    <2>4. ClearKept(s, k) /\ OnWayKept(s, k)
      BY <1>10, <1>11, <1>12, <1>13, <1>14, <2>1, <2>2, <2>3 DEF ClearKept, OnWayKept, p, m
    <2> QED BY <2>4, WayStill
  <1> QED BY <1>16, <1>17

\* The writer's side lets no half of the stream go between the two sends of a flush, as long
\* as the reader's side holds its own.
Settled(s, k) == pend[s][k] /\ ~Gone(Peer(s), Mirror(k)) => ~Gone(s, k)

\* A step changes the halves of one stream on one side: the application's half is closed or
\* dropped, or is between the two sends of a flush or through with it, not both.
LEMMA OneAtATime ==
  ASSUME TypeOK, OpenedOnce, OrderedQueues, UpInv, Up, Up', [Next]_vars,
         NEW s \in Side, NEW k \in Key, ~Gone(s, k), Gone(s, k)'
  PROVE  \E x \in Side, j \in Key : ShutWrite(x, j) \/ DropWrite(x, j) \/ DropRead(x, j)
  <1> USE DEF wiredVars, helperVars, netVars, halfVars
  <1> SUFFICES ASSUME ~\E x \in Side, j \in Key : ShutWrite(x, j) \/ DropWrite(x, j) \/ DropRead(x, j)
               PROVE  FALSE
    OBVIOUS
  <1>1. /\ wh \in [Side -> [Key -> {"none", "open", "shut", "dropped"}]]
        /\ rh \in [Side -> [Key -> {"none", "open", "dropped"}]]
    BY DEF TypeOK
  <1>2. ASSUME NEW x \in Side, ReadOpen(x) \/ WiredConnect(x) PROVE FALSE
    <2>1. \E j \in Key : wh' = [wh EXCEPT ![x][j] = "open"] /\ rh' = [rh EXCEPT ![x][j] = "open"]
      <3>1. CASE ReadOpen(x)
        BY <3>1, ReadsId
      <3>2. CASE WiredConnect(x)
        BY <3>2, NextIdType DEF WiredConnect
      <3> QED BY <1>2, <3>1, <3>2
    <2> QED BY <1>1, <2>1 DEF Gone
  <1>3. ASSUME NEW x \in Side,
               \/ WiredEventDone(x) \/ WiredRegister(x) \/ WiredMessage(x) \/ WiredDrop(x)
               \/ ReadEvent(x) \/ ReadMessage(x) \/ ReadDrop(x)
               \/ HelperMessage(x) \/ HelperRegister(x) \/ HelperDrop(x)
               \/ \E n \in 0..MaxChans : Send(x, n)
        PROVE  wh' = wh /\ rh' = rh
    BY <1>3 DEF WiredEventDone, WiredRegister, WiredMessage, WiredDrop, ReadEvent,
                ReadMessage, ReadDrop, HelperMessage, HelperRegister, HelperDrop, Send
  <1>4. ASSUME NEW x \in Side, NEW j \in Key, HalfStep(x, j)
        PROVE  wh' = wh /\ rh' = rh
    BY <1>4 DEF HalfStep, FlushBegin, FlushEnd, PollRead, PollReadEof
  <1>5. CASE UNCHANGED vars
    BY <1>5 DEF vars, Gone
  <1>6. wh' = wh /\ rh' = rh => FALSE
    BY DEF Gone
  <1> QED BY <1>2, <1>3, <1>4, <1>5, <1>6, UpSteps

\* The first message of a stream stays on its way until it is delivered, as long as its read
\* half is held.
LEMMA WayNext ==
  ASSUME HeldInv, TypeOK', Placed, Up, Up', [Next]_vars,
         NEW s \in Side, NEW k \in Key, Settled(s, k), Settled(s, k)', WayKey(s, k)
  PROVE  WayKey(s, k)'
  <1> DEFINE p == Peer(s)
             m == Mirror(k)
  <1>1. p \in Side /\ m \in Key /\ Peer(p) = s
    BY PeerSide, MirrorKey
  <1> SUFFICES ASSUME Gone(s, k)', flushed'[s][k] > 0, arr'[p][m] = <<>>, ~Gone(p, m)'
               PROVE  FirstOnWay(s, k)'
    BY DEF WayKey, Awaits
  <1> HIDE DEF p, m
  <1> USE <1>1
  <1>2. TypeOK /\ OpenedOnce /\ OrderedQueues /\ Announced /\ UpInv
    BY DEF HeldInv
  <1>3. /\ flushed \in [Side -> [Key -> Nat]]
        /\ arr \in [Side -> [Key -> Seq(Nat \ {0})]] /\ pend \in [Side -> [Key -> BOOLEAN]]
        /\ wh \in [Side -> [Key -> {"none", "open", "shut", "dropped"}]]
        /\ rh \in [Side -> [Key -> {"none", "open", "dropped"}]]
    BY <1>2 DEF TypeOK
  <1>4. ~pend'[s][k] /\ ~Gone(p, m)
    BY <1>2, GoneGate DEF Settled, p, m
  <1>5. ~pend[s][k]
    <2> SUFFICES ASSUME pend[s][k] PROVE FALSE
      OBVIOUS
    <2>1. ~Gone(s, k)
      BY <1>4 DEF Settled, p, m
    <2>2. \E x \in Side, j \in Key : ShutWrite(x, j) \/ DropWrite(x, j) \/ DropRead(x, j)
      BY <1>2, <2>1, OneAtATime
    <2>3. pend' = pend
      BY <2>2 DEF ShutWrite, DropWrite, DropRead
    <2> QED BY <1>4, <2>3
  <1>6. ASSUME NEW x \in Side, NEW j \in Key, FlushBegin(x, j)
        PROVE  (x # s \/ j # k) /\ arr' = arr /\ flushed'[s][k] = flushed[s][k]
    <2>1. /\ pend' = [pend EXCEPT ![x][j] = TRUE] /\ arr' = arr
          /\ flushed' = [flushed EXCEPT ![x][j] = @ + 1]
      BY <1>6 DEF FlushBegin
    <2>2. x # s \/ j # k
      BY <1>3, <1>4, <2>1
    <2> QED BY <1>3, <2>1, <2>2
  <1>7. ASSUME NEW x \in Side, HelperMessage(x)
        PROVE  flushed' = flushed /\ (arr[p][m] # <<>> => arr'[p][m] # <<>>)
    <2>1. /\ HelperAt(x, "data") /\ flushed' = flushed
          /\ arr' = arr \/ arr' = [arr EXCEPT ![x][Head(uq[x]).k] = Append(@, Head(uq[x]).n)]
      BY <1>7 DEF HelperMessage, halfVars
    <2>2. Head(uq[x]).n \in Nat \ {0} /\ Head(uq[x]).k \in Key
      BY <1>2, <2>1, HeadU
    <2>3. \A q \in Seq(Nat \ {0}), n \in Nat \ {0} : Append(q, n) # <<>>
      OBVIOUS
    <2>4. arr[p][m] \in Seq(Nat \ {0})
      BY <1>3
    <2>5. PICK j, n : j = Head(uq[x]).k /\ n = Head(uq[x]).n
      OBVIOUS
    <2>6. CASE arr' = [arr EXCEPT ![x][j] = Append(@, n)]
      <3>1. arr'[p][m] = IF p = x /\ m = j THEN Append(arr[p][m], n) ELSE arr[p][m]
        BY <1>3, <2>6
      <3>2. Append(arr[p][m], n) # <<>>
        BY <2>2, <2>3, <2>4, <2>5
      <3> QED BY <2>1, <3>1, <3>2
    <2> QED BY <2>1, <2>5, <2>6
  <1>8. FirstOnWay(s, k)
    <2>1. flushed[s][k] > 0 /\ arr[p][m] = <<>>
      BY <1>6, <1>7, MessageSteps
    <2>2. Awaits(s, k)
      BY <1>4, <2>1 DEF Awaits, p, m
    <2>3. CASE Gone(s, k)
      BY <2>2, <2>3 DEF WayKey
    <2>4. CASE ~Gone(s, k)
      BY <2>2, <2>4, HeldOnWay
    <2> QED BY <2>3, <2>4
  <1>9. ASSUME ClearKept(s, k) /\ OnWayKept(s, k) PROVE FirstOnWay(s, k)'
    BY <1>5, <1>8, <1>9, WayStill
  <1>10. CASE UNCHANGED vars
    <2>1. UNCHANGED <<wq, uq, net, wired, helper, nextId, pend>>
      BY <1>10 DEF vars, wiredVars, helperVars, netVars, halfVars
    <2>2. ClearKept(s, k) /\ OnWayKept(s, k)
      BY <2>1 DEF ClearKept, OnWayKept, WDropped, UDropped, NDropped, Sink, Opened, TxAlive, RxAlive
    <2> QED BY <1>9, <2>2
  <1>11. ASSUME NEW x \in Side,
                \/ WiredConnect(x) \/ WiredEventDone(x) \/ WiredRegister(x) \/ WiredMessage(x)
                \/ WiredDrop(x)
         PROVE  FirstOnWay(s, k)'
    <2>1. CASE WiredDrop(x)
      BY <1>2, <1>5, <1>8, <2>1, WayWiredDrop
    <2>2. CASE WiredMessage(x) /\ x = s /\ Head(wq[x]) = Message(k)
      BY <1>2, <1>5, <1>8, <2>2, WayWritten
    <2>3. CASE \/ WiredConnect(x) \/ WiredEventDone(x) \/ WiredRegister(x)
               \/ WiredMessage(x) /\ (x # s \/ Head(wq[x]) # Message(k))
      BY <1>2, <1>9, <2>3, WayWired
    <2> QED BY <1>11, <2>1, <2>2, <2>3
  <1>12. ASSUME NEW x \in Side, ReadOpen(x) \/ ReadEvent(x) \/ ReadMessage(x) \/ ReadDrop(x)
         PROVE  FirstOnWay(s, k)'
    <2>1. CASE ReadDrop(x)
      BY <1>2, <1>5, <1>8, <2>1, WayReadDrop
    <2>2. CASE ReadMessage(x) /\ x = p /\ Head(net[Peer(x)]).k = m
      BY <1>2, <1>5, <1>8, <2>2, WayRead DEF p, m
    <2>3. CASE \/ ReadOpen(x) \/ ReadEvent(x)
               \/ ReadMessage(x) /\ (x # p \/ Head(net[Peer(x)]).k # m)
      BY <1>2, <1>9, <2>3, WayReader DEF p, m
    <2> QED BY <1>12, <2>1, <2>2, <2>3
  <1>13. ASSUME NEW x \in Side, HelperMessage(x) \/ HelperRegister(x) \/ HelperDrop(x)
         PROVE  FirstOnWay(s, k)'
    <2>1. CASE HelperDrop(x)
      BY <1>2, <1>5, <1>8, <2>1, WayHelperDrop
    <2>2. ~(HelperMessage(x) /\ x = p /\ Head(uq[x]).k = m)
      BY <1>2, <1>4, <1>8, WayDelivered DEF p, m
    <2>3. CASE \/ HelperRegister(x)
               \/ HelperMessage(x) /\ (x # p \/ Head(uq[x]).k # m)
      BY <1>2, <1>9, <2>3, WayHelper DEF p, m
    <2> QED BY <1>13, <2>1, <2>2, <2>3
  <1>14. ASSUME NEW x \in Side, NEW n \in 0..MaxChans, Send(x, n) PROVE FirstOnWay(s, k)'
    BY <1>2, <1>9, <1>14, WayApp
  <1>15. ASSUME NEW x \in Side, NEW j \in Key, HalfStep(x, j) PROVE FirstOnWay(s, k)'
    <2>1. CASE FlushBegin(x, j) \/ FlushEnd(x, j) \/ PollRead(x, j) \/ PollReadEof(x, j)
      BY <1>2, <1>9, <2>1, WayApp
    <2>2. CASE ShutWrite(x, j) \/ DropWrite(x, j) \/ DropRead(x, j)
      <3>1. x # p \/ j # m
        <4> SUFFICES ASSUME x = p, j = m PROVE FALSE
          OBVIOUS
        <4>1. wh' = [wh EXCEPT ![p][m] = "shut"] \/ wh' = [wh EXCEPT ![p][m] = "dropped"]
                \/ rh' = [rh EXCEPT ![p][m] = "dropped"]
          BY <2>2 DEF ShutWrite, DropWrite, DropRead
        <4>2. wh'[p][m] \in {"shut", "dropped"} \/ rh'[p][m] = "dropped"
          BY <1>3, <4>1
        <4> QED BY <4>2 DEF Gone
      <3> QED BY <1>2, <1>9, <2>2, <3>1, WayHalf DEF p, m
    <2> QED BY <1>15, <2>1, <2>2 DEF HalfStep
  <1> QED BY <1>2, <1>10, <1>11, <1>12, <1>13, <1>14, <1>15, UpSteps

-----------------------------------------------------------------------------
(* The halves of an open stream are with an application.                    *)

\* A frame of an id stays on the transport, unless the reader takes it.
LEMMA IdStays ==
  ASSUME TypeOK, UpInv, Up, Up', [Next]_vars,
         ~\E s \in Side : ReadOpen(s) \/ WiredConnect(s), NEW x \in Side, NEW id \in WireId
  PROVE  /\ nextId' = nextId
         /\ Queued(net[x], OpenFrame(id)) => Queued(net'[x], OpenFrame(id))
  <1> USE DEF wiredVars, helperVars, netVars, halfVars
  <1>1. ASSUME NEW s \in Side, NEW e \in WiringEvent, net' = [net EXCEPT ![s] = Append(@, e)]
        PROVE  Queued(net[x], OpenFrame(id)) => Queued(net'[x], OpenFrame(id))
    BY <1>1, SendHolds
  <1>2. ASSUME NEW s \in Side, NEW t, Reading(s, t), t # "open"
        PROVE  Queued(net[x], OpenFrame(id)) => Queued(net'[x], OpenFrame(id))
    <2>1. Head(net[Peer(s)]) # OpenFrame(id)
      BY <1>2 DEF Reading, OpenFrame
    <2> QED BY <1>2, <2>1, ReadHolds
  <1>3. CASE UNCHANGED vars
    BY <1>3 DEF vars
  <1>4. ASSUME NEW s \in Side,
               \/ WiredEventDone(s) \/ WiredRegister(s) \/ WiredMessage(s) \/ WiredDrop(s)
        PROVE  /\ nextId' = nextId
               /\ Queued(net[x], OpenFrame(id)) => Queued(net'[x], OpenFrame(id))
    <2>1. nextId' = nextId
      BY <1>4 DEF WiredEventDone, WiredRegister, WiredMessage, WiredDrop
    <2>2. CASE WiredEventDone(s)
      <3>1. net' = [net EXCEPT ![s] = Append(@, EventFrame)]
        BY <2>2, UpWrites DEF WiredEventDone
      <3> QED BY <1>1, <2>1, <3>1, EventTypes
    <2>3. CASE WiredRegister(s)
      BY <2>1, <2>3 DEF WiredRegister
    <2>4. CASE WiredMessage(s)
      <3>1. net' = net \/ \E e \in WiringEvent : Write(s, e)
        BY <2>4, MessageWrites
      <3>2. net' = net \/ \E e \in WiringEvent : net' = [net EXCEPT ![s] = Append(@, e)]
        BY <3>1, UpWrites
      <3> QED BY <1>1, <2>1, <3>2
    <2>5. CASE WiredDrop(s)
      <3>1. net' = net \/ \E j \in Key : Write(s, DropFrame(Mirror(j)))
        BY <2>5, DropWrites
      <3>2. net' = net \/ \E j \in Key : net' = [net EXCEPT ![s] = Append(@, DropFrame(Mirror(j)))]
        BY <3>1, UpWrites
      <3>3. \A j \in Key : DropFrame(Mirror(j)) \in WiringEvent
        BY MirrorKey, EventTypes
      <3> QED BY <1>1, <2>1, <3>2, <3>3
    <2> QED BY <1>4, <2>2, <2>3, <2>4, <2>5
  <1>5. ASSUME NEW s \in Side, ReadEvent(s) \/ ReadMessage(s) \/ ReadDrop(s)
        PROVE  /\ nextId' = nextId
               /\ Queued(net[x], OpenFrame(id)) => Queued(net'[x], OpenFrame(id))
    <2>1. nextId' = nextId /\ (Reading(s, "event") \/ Reading(s, "data") \/ Reading(s, "drop"))
      BY <1>5 DEF ReadEvent, ReadMessage, ReadDrop
    <2> QED BY <1>2, <2>1
  <1>6. ASSUME NEW s \in Side,
               \/ HelperMessage(s) \/ HelperRegister(s) \/ HelperDrop(s)
               \/ \E n \in 0..MaxChans : Send(s, n)
               \/ \E j \in Key : HalfStep(s, j)
        PROVE  nextId' = nextId /\ net' = net
    BY <1>6 DEF HelperMessage, HelperRegister, HelperDrop, Send, HalfStep, FlushBegin, FlushEnd,
                ShutWrite, DropWrite, DropRead, PollRead, PollReadEof
  <1> QED BY <1>3, <1>4, <1>5, <1>6, UpSteps

\* The halves that an application has it keeps, or drops.
LEMMA HalvesStay ==
  ASSUME TypeOK, OpenedOnce, UpInv, Up, Up', [Next]_vars, NEW x \in Side, NEW k \in Key
  PROVE  /\ wh'[x][k] = wh[x][k] \/ wh'[x][k] \in {"open", "shut", "dropped"}
         /\ rh'[x][k] = rh[x][k] \/ rh'[x][k] \in {"open", "dropped"}
  <1> USE DEF wiredVars, helperVars, netVars, halfVars
  <1>1. /\ wh \in [Side -> [Key -> {"none", "open", "shut", "dropped"}]]
        /\ rh \in [Side -> [Key -> {"none", "open", "dropped"}]]
    BY DEF TypeOK
  <1>2. ASSUME NEW s \in Side, ReadOpen(s) \/ WiredConnect(s)
        PROVE  \E j \in Key : /\ wh' = [wh EXCEPT ![s][j] = "open"]
                               /\ rh' = [rh EXCEPT ![s][j] = "open"]
    <2>1. CASE ReadOpen(s)
      BY <2>1, ReadsId
    <2>2. CASE WiredConnect(s)
      BY <2>2, NextIdType DEF WiredConnect
    <2> QED BY <1>2, <2>1, <2>2
  <1>3. ASSUME NEW s \in Side,
               \/ WiredEventDone(s) \/ WiredRegister(s) \/ WiredMessage(s) \/ WiredDrop(s)
               \/ ReadEvent(s) \/ ReadMessage(s) \/ ReadDrop(s)
               \/ HelperMessage(s) \/ HelperRegister(s) \/ HelperDrop(s)
               \/ \E n \in 0..MaxChans : Send(s, n)
        PROVE  wh' = wh /\ rh' = rh
    BY <1>3 DEF WiredEventDone, WiredRegister, WiredMessage, WiredDrop, ReadEvent,
                ReadMessage, ReadDrop, HelperMessage, HelperRegister, HelperDrop, Send
  <1>4. ASSUME NEW s \in Side, NEW j \in Key, HalfStep(s, j)
        PROVE  /\ wh' = wh \/ \E h \in {"shut", "dropped"} : wh' = [wh EXCEPT ![s][j] = h]
               /\ rh' = rh \/ rh' = [rh EXCEPT ![s][j] = "dropped"]
    BY <1>4 DEF HalfStep, FlushBegin, FlushEnd, ShutWrite, DropWrite, DropRead, PollRead,
                PollReadEof
  <1>5. CASE UNCHANGED vars
    BY <1>5 DEF vars
  <1>6. ASSUME NEW s \in Side, NEW j \in Key, NEW h, wh' = [wh EXCEPT ![s][j] = h]
        PROVE  wh'[x][k] = wh[x][k] \/ wh'[x][k] = h
    BY <1>1, <1>6
  <1>7. ASSUME NEW s \in Side, NEW j \in Key, NEW h, rh' = [rh EXCEPT ![s][j] = h]
        PROVE  rh'[x][k] = rh[x][k] \/ rh'[x][k] = h
    BY <1>1, <1>7
  <1>8. ASSUME NEW s \in Side, ReadOpen(s) \/ WiredConnect(s)
        PROVE  /\ wh'[x][k] = wh[x][k] \/ wh'[x][k] = "open"
               /\ rh'[x][k] = rh[x][k] \/ rh'[x][k] = "open"
    <2>1. PICK j \in Key : /\ wh' = [wh EXCEPT ![s][j] = "open"]
                           /\ rh' = [rh EXCEPT ![s][j] = "open"]
      BY <1>2, <1>8
    <2> QED BY <1>6, <1>7, <2>1
  <1>9. ASSUME NEW s \in Side, NEW j \in Key, HalfStep(s, j)
        PROVE  /\ wh'[x][k] = wh[x][k] \/ wh'[x][k] \in {"shut", "dropped"}
               /\ rh'[x][k] = rh[x][k] \/ rh'[x][k] = "dropped"
    <2>1. wh'[x][k] = wh[x][k] \/ wh'[x][k] \in {"shut", "dropped"}
      <3>1. CASE wh' = wh
        BY <3>1
      <3>2. ASSUME NEW h \in {"shut", "dropped"}, wh' = [wh EXCEPT ![s][j] = h]
            PROVE  wh'[x][k] = wh[x][k] \/ wh'[x][k] \in {"shut", "dropped"}
        BY <1>6, <3>2
      <3> QED BY <1>4, <1>9, <3>1, <3>2
    <2>2. rh'[x][k] = rh[x][k] \/ rh'[x][k] = "dropped"
      <3>1. CASE rh' = rh
        BY <3>1
      <3>2. CASE rh' = [rh EXCEPT ![s][j] = "dropped"]
        BY <1>7, <3>2
      <3> QED BY <1>4, <1>9, <3>1, <3>2
    <2> QED BY <2>1, <2>2
  <1> QED BY <1>3, <1>5, <1>8, <1>9, UpSteps

LEMMA PlacedNext ==
  ASSUME TypeOK, TypeOK', OpenedOnce, OrderedQueues, UpInv, Up, Up', [Next]_vars, Placed
  PROVE  Placed'
  <1> USE DEF wiredVars, helperVars, netVars, halfVars
  <1> SUFFICES ASSUME NEW x \in Side, NEW k \in Key, Opened(x, k)'
               PROVE  wh'[x][k] # "none" /\ rh'[x][k] # "none"
    BY DEF Placed
  <1>1. /\ wh \in [Side -> [Key -> {"none", "open", "shut", "dropped"}]]
        /\ rh \in [Side -> [Key -> {"none", "open", "dropped"}]]
        /\ nextId \in [Side -> 0..MaxStreams] /\ nextId' \in [Side -> 0..MaxStreams]
    BY DEF TypeOK
  <1>2. /\ Peer(x) \in Side /\ Peer(Peer(x)) = x /\ k[1] \in WireId /\ k[1] \in Nat
        /\ k[2] \in BOOLEAN /\ (k[2] => k = Local(k[1])) /\ (~k[2] => k = Remote(k[1]))
    BY PeerSide, MirrorKey
  <1>3. CASE Opened(x, k)
    BY <1>3, HalvesStay DEF Placed
  <1>4. CASE ~Opened(x, k)
    <2>1. ASSUME NEW s \in Side, ReadOpen(s)
          PROVE  wh'[x][k] # "none" /\ rh'[x][k] # "none"
      <3>1. PICK id \in WireId :
              /\ Reading(s, "open") /\ nextId' = nextId
              /\ wh' = [wh EXCEPT ![s][Remote(id)] = "open"]
              /\ rh' = [rh EXCEPT ![s][Remote(id)] = "open"]
              /\ Head(net[Peer(s)]) = OpenFrame(id) /\ Remote(id) \in Key
        BY <2>1, ReadsId
      <3>2. ~k[2] /\ Queued(net[Peer(x)], OpenFrame(k[1])) /\ ~Queued(net'[Peer(x)], OpenFrame(k[1]))
        BY <1>4, <3>1 DEF Opened
      <3>3. Peer(x) = Peer(s) /\ OpenFrame(k[1]) = OpenFrame(id)
        BY <1>2, <3>1, <3>2, ReadHolds
      <3>4. x = s /\ k[1] = id
        <4>1. Peer(Peer(s)) = s
          BY PeerSide
        <4> QED BY <1>2, <3>3, <4>1, Kinds2
      <3> QED BY <1>1, <1>2, <3>1, <3>2, <3>4
    <2>2. ASSUME NEW s \in Side, WiredConnect(s)
          PROVE  wh'[x][k] # "none" /\ rh'[x][k] # "none"
      <3>1. PICK id \in WireId :
              /\ id = nextId[s] + 1 /\ nextId' = [nextId EXCEPT ![s] = id]
              /\ net' = [net EXCEPT ![s] = Append(@, OpenFrame(id))]
              /\ wh' = [wh EXCEPT ![s][Local(id)] = "open"]
              /\ rh' = [rh EXCEPT ![s][Local(id)] = "open"]
              /\ Local(id) \in Key
        BY <2>2, NextIdType, UpWrites DEF WiredConnect, Connected
      <3>2. OpenFrame(id) \in WiringEvent
        BY EventTypes
      <3>3. ASSUME NEW y \in Side, NEW f
            PROVE  Queued(net'[y], f) <=> Queued(net[y], f) \/ (y = s /\ f = OpenFrame(id))
        BY <3>1, <3>2, SendHolds
      <3>4. nextId'[x] = (IF x = s THEN id ELSE nextId[x]) /\ nextId[x] \in Nat
        BY <1>1, <3>1, Bounds
      <3>5. nextId'[Peer(x)] = (IF Peer(x) = s THEN id ELSE nextId[Peer(x)]) /\ nextId[Peer(x)] \in Nat
        BY <1>1, <1>2, <3>1, Bounds
      <3>6. CASE k[2]
        <4>1. k[1] <= nextId'[x] /\ ~(k[1] <= nextId[x])
          BY <1>4, <3>6 DEF Opened
        <4>2. x = s /\ k[1] = id
          BY <1>2, <3>1, <3>4, <4>1
        <4> QED BY <1>1, <1>2, <3>1, <3>6, <4>2
      <3>7. CASE ~k[2]
        <4>1. k[1] <= nextId'[Peer(x)] /\ ~Queued(net'[Peer(x)], OpenFrame(k[1]))
          BY <3>7 DEF Opened
        <4>2. ~(k[1] <= nextId[Peer(x)])
          BY <1>2, <1>4, <3>3, <3>7, <4>1 DEF Opened
        <4>3. Peer(x) = s /\ k[1] = id
          BY <1>2, <3>1, <3>5, <4>1, <4>2
        <4> QED BY <1>2, <3>3, <4>1, <4>3
      <3> QED BY <1>2, <3>6, <3>7
    <2>3. CASE ~\E s \in Side : ReadOpen(s) \/ WiredConnect(s)
      <3>1. /\ nextId' = nextId
            /\ Queued(net[Peer(x)], OpenFrame(k[1])) => Queued(net'[Peer(x)], OpenFrame(k[1]))
        BY <1>2, <2>3, IdStays
      <3>2. Opened(x, k)
        BY <3>1 DEF Opened
      <3> QED BY <1>4, <3>2
    <2> QED BY <2>1, <2>2, <2>3
  <1> QED BY <1>3, <1>4

LEMMA PlacedInit == ASSUME Init PROVE Placed
  <1> SUFFICES ASSUME NEW s \in Side, NEW k \in Key PROVE ~Opened(s, k)
    BY DEF Placed
  <1>1. nextId = [x \in Side |-> 0] /\ Peer(s) \in Side /\ k[1] \in Nat /\ k[1] > 0
    BY PeerSide, Bounds DEF Init, Key, WireId
  <1> QED BY <1>1 DEF Opened

-----------------------------------------------------------------------------
(* The tasks and applications of WiredChannels take the steps of Wired.     *)

LEMMA OneOfEach == MaxEvents = 1 /\ MaxChans = 1 /\ MaxStreams = 1
  BY OneChannelAssumption

\* The ends of the stream of a channel.
WKey(c) == KeyAt(c, WriterSide(c))
RKey(c) == KeyAt(c, ReaderSide(c))

LEMMA KeyAtType ==
  ASSUME NEW c \in Side, NEW s \in Side
  PROVE  /\ KeyAt(c, s) \in Key
         /\ Mirror(KeyAt(c, s)) = KeyAt(c, Peer(s))
         /\ \A d \in Side : d # c => KeyAt(d, s) # KeyAt(c, s)
         /\ Local(1) = KeyAt(s, s)
  <1>1. WireId = {1}
    BY OneOfEach DEF WireId
  <1>2. Local(1) \in Key /\ Remote(1) \in Key /\ Local(1) # Remote(1)
    BY <1>1 DEF Key, Local, Remote
  <1>3. Mirror(Local(1)) = Remote(1) /\ Mirror(Remote(1)) = Local(1)
    BY DEF Mirror, Local, Remote
  <1>4. s = c <=> Peer(s) # c
    BY SidesAssumption DEF Side, Peer
  <1>5. \A d \in Side : d # c => (s = d <=> s # c)
    BY DEF Side
  <1> QED BY <1>2, <1>3, <1>4, <1>5 DEF KeyAt

LEMMA ChannelEnds ==
  ASSUME NEW c \in Channel
  PROVE  /\ c \in Side /\ WriterSide(c) \in Side /\ ReaderSide(c) \in Side
         /\ Peer(WriterSide(c)) = ReaderSide(c) /\ Peer(ReaderSide(c)) = WriterSide(c)
         /\ WriterSide(c) # ReaderSide(c) /\ \A s \in Side : s = WriterSide(c) \/ s = ReaderSide(c)
         /\ WKey(c) \in Key /\ RKey(c) \in Key
         /\ Mirror(WKey(c)) = RKey(c) /\ Mirror(RKey(c)) = WKey(c)
  <1>1. c \in Side
    BY DEF Channel
  <1>2. \A s \in Side : Peer(s) \in Side /\ Peer(Peer(s)) = s /\ Peer(s) # s
                         /\ \A x \in Side : x = s \/ x = Peer(s)
    BY SidesAssumption DEF Side, Peer
  <1>3. WriterSide(c) \in Side
    BY <1>1, <1>2 DEF WriterSide
  <1> QED BY <1>1, <1>2, <1>3, KeyAtType DEF ReaderSide, WKey, RKey

\* A task of channel c does something with a half of its stream, or nothing with Wired.
LEMMA TaskHalves ==
  ASSUME NEW c \in Channel, ChannelTask(c)
  PROVE  UNCHANGED vars \/ \E s \in Side : HalfStep(s, KeyAt(c, s))
  <1> USE ChannelEnds
  <1>1. CASE WriterTakes(c)
    BY <1>1 DEF WriterTakes, HalfStep
  <1>2. CASE WriterFails(c)
    BY <1>2 DEF WriterFails
  <1>3. CASE WriterFlushed(c)
    BY <1>3 DEF WriterFlushed, HalfStep
  <1>4. CASE WriterDone(c)
    BY <1>4 DEF WriterDone
  <1>5. CASE WriterWatch(c)
    BY <1>5 DEF WriterWatch, HalfStep
  <1>6. CASE ReaderTakes(c)
    BY <1>6 DEF ReaderTakes, HalfStep
  <1>7. CASE ReaderEnds(c)
    BY <1>7 DEF ReaderEnds, HalfStep
  <1>8. CASE ReaderWatch(c)
    BY <1>8 DEF ReaderWatch, HalfStep
  <1>9. CASE ReaderClosed(c)
    BY <1>9 DEF ReaderClosed
  <1>10. CASE \E s \in Side : LetGo(c, s)
    BY <1>10 DEF LetGo, HalfStep
  <1> QED BY <1>1, <1>2, <1>3, <1>4, <1>5, <1>6, <1>7, <1>8, <1>9, <1>10 DEF ChannelTask

LEMMA HalfIsNext ==
  ASSUME NEW s \in Side, NEW k \in Key, HalfStep(s, k)
  PROVE  Next
  BY DEF Next, AppStep

\* Every step of WiredChannels is one of Wired, or leaves its variables alone.
LEMMA StepsOfWired ==
  ASSUME [TaskStep \/ UserStep]_allVars
  PROVE  [Next]_vars
  <1> USE KeyAtType
  <1>1. CASE UNCHANGED allVars
    BY <1>1 DEF allVars
  <1>2. ASSUME NEW s \in Side, ConnectionTask(s)
        PROVE  Next
    BY <1>2 DEF ConnectionTask, Next
  <1>3. ASSUME NEW s \in Side, HeldFlushEnd(s) \/ HeldStep(s)
        PROVE  Next
    <2>1. \E x \in Side, k \in Key : HalfStep(x, k)
      BY <1>3 DEF HeldFlushEnd, HeldStep, HalfStep
    <2> QED BY <2>1, HalfIsNext
  <1>4. ASSUME NEW c \in Channel, ChannelTask(c)
        PROVE  [Next]_vars
    BY <1>4, TaskHalves, HalfIsNext, ChannelEnds
  <1>5. ASSUME NEW s \in Side, HandleStep(s)
        PROVE  Next
    <2>1. \A n \in {0, 1} : n \in 0..MaxChans
      BY OneOfEach
    <2> QED BY <1>5, <2>1 DEF HandleStep, Next, AppStep
  <1>6. ASSUME NEW c \in Channel, Accept(c) \/ DropTx(c) \/ DropRx(c)
        PROVE  UNCHANGED vars
    BY <1>6 DEF Accept, DropTx, DropRx
  <1> QED BY <1>1, <1>2, <1>3, <1>4, <1>5, <1>6 DEF TaskStep, UserStep

\* The tasks of the channels use the multiplexer as its applications may: all that is proved
\* of Wired holds for them.
THEOREM ChannelsRunOnWired == SpecAll => Spec
  <1>1. [TaskStep \/ UserStep]_allVars => [Next]_vars
    BY StepsOfWired
  <1> QED BY <1>1, PTL DEF SpecAll, Spec

-----------------------------------------------------------------------------
(* Which channel a step is about.                                           *)

ChannelTypes ==
  /\ sent \in [Side -> Nat] /\ got \in [Side -> Seq(Nat)]
  /\ txGone \in [Side -> BOOLEAN] /\ rxGone \in [Side -> BOOLEAN]
  /\ over \in [Side -> SUBSET Task]

\* A step leaves what the channel of c keeps alone.
ChannelStill(c) ==
  /\ sent'[c] = sent[c] /\ got'[c] = got[c] /\ over'[c] = over[c]
  /\ txGone'[c] = txGone[c] /\ rxGone'[c] = rxGone[c]
\* It closes and drops no half of its stream, flushes nothing into it and reads nothing.
HalvesStill(c) ==
  \A s \in Side :
    LET k == KeyAt(c, s)
    IN  /\ flushed'[s][k] = flushed[s][k] /\ cur'[s][k] = cur[s][k] /\ pend'[s][k] = pend[s][k]
        /\ wh'[s][k] \in {"shut", "dropped"} => wh[s][k] \in {"shut", "dropped"}
        /\ rh'[s][k] = "dropped" => rh[s][k] = "dropped"
OwnStep(c) == ChannelTask(c) \/ Accept(c) \/ DropTx(c) \/ DropRx(c)

LEMMA SceneStays ==
  ASSUME [TaskStep \/ UserStep]_allVars
  PROVE  scene' = scene
  <1>1. ASSUME NEW c \in Channel, ChannelTask(c)
        PROVE  scene' = scene
    BY <1>1 DEF ChannelTask, WriterTakes, WriterFails, WriterFlushed, WriterDone, WriterWatch,
                ReaderTakes, ReaderEnds, ReaderWatch, ReaderClosed, LetGo, SameApps, chanVars
  <1>2. ASSUME NEW s \in Side, ConnectionTask(s) \/ HeldFlushEnd(s) \/ HandleStep(s) \/ HeldStep(s)
        PROVE  scene' = scene
    BY <1>2 DEF ConnectionTask, HeldFlushEnd, HandleStep, HeldStep, chanVars
  <1>3. ASSUME NEW c \in Channel, Accept(c) \/ DropTx(c) \/ DropRx(c)
        PROVE  scene' = scene
    BY <1>3 DEF Accept, DropTx, DropRx
  <1>4. CASE UNCHANGED allVars
    BY <1>4 DEF allVars, chanVars
  <1> QED BY <1>1, <1>2, <1>3, <1>4 DEF TaskStep, UserStep

\* So the channels there are, and which side of them writes, never change.
LEMMA ChannelFixed ==
  ASSUME scene' = scene
  PROVE  /\ Channel' = Channel
         /\ \A c : /\ KindOf(c)' = KindOf(c) /\ WriterSide(c)' = WriterSide(c)
                   /\ ReaderSide(c)' = ReaderSide(c) /\ WKey(c)' = WKey(c) /\ RKey(c)' = RKey(c)
  BY DEF Channel, KindOf, WriterSide, ReaderSide, WKey, RKey, KeyAt

\* A step on one stream leaves the halves of the others alone.
LEMMA OtherHalf ==
  ASSUME TypeOK, NEW c \in Side, NEW s \in Side, NEW k \in Key, HalfStep(s, k), k # KeyAt(c, s)
  PROVE  HalvesStill(c)
  <1> SUFFICES ASSUME NEW x \in Side
               PROVE  LET j == KeyAt(c, x)
                      IN  /\ flushed'[x][j] = flushed[x][j] /\ cur'[x][j] = cur[x][j]
                          /\ pend'[x][j] = pend[x][j] /\ wh'[x][j] = wh[x][j]
                          /\ rh'[x][j] = rh[x][j]
    BY DEF HalvesStill
  <1> DEFINE j == KeyAt(c, x)
  <1>1. j \in Key /\ (x # s \/ j # k)
    BY KeyAtType
  <1> HIDE DEF j
  <1>2. /\ flushed \in [Side -> [Key -> Nat]] /\ cur \in [Side -> [Key -> 0..1]]
        /\ pend \in [Side -> [Key -> BOOLEAN]]
        /\ wh \in [Side -> [Key -> {"none", "open", "shut", "dropped"}]]
        /\ rh \in [Side -> [Key -> {"none", "open", "dropped"}]]
    BY DEF TypeOK
  <1>3. /\ flushed'[x][j] = flushed[x][j] /\ cur'[x][j] = cur[x][j] /\ pend'[x][j] = pend[x][j]
        /\ wh'[x][j] = wh[x][j] /\ rh'[x][j] = rh[x][j]
    <2>1. CASE FlushBegin(s, k)
      BY <1>1, <1>2, <2>1 DEF FlushBegin
    <2>2. CASE FlushEnd(s, k)
      BY <1>1, <1>2, <2>2 DEF FlushEnd
    <2>3. CASE ShutWrite(s, k)
      BY <1>1, <1>2, <2>3 DEF ShutWrite
    <2>4. CASE DropWrite(s, k)
      BY <1>1, <1>2, <2>4 DEF DropWrite
    <2>5. CASE DropRead(s, k)
      BY <1>1, <1>2, <2>5 DEF DropRead
    <2>6. CASE PollRead(s, k)
      BY <1>1, <1>2, <2>6 DEF PollRead
    <2>7. CASE PollReadEof(s, k)
      BY <1>1, <1>2, <2>7 DEF PollReadEof
    <2> QED BY <2>1, <2>2, <2>3, <2>4, <2>5, <2>6, <2>7 DEF HalfStep
  <1> QED BY <1>3 DEF j

\* The tasks of the connection open halves, and change nothing else about them.
LEMMA TasksOfConnection ==
  ASSUME TypeOK, OpenedOnce, UpInv, Up, NEW s \in Side, ConnectionTask(s), NEW c \in Side
  PROVE  HalvesStill(c)
  <1> USE DEF wiredVars, helperVars, netVars, halfVars
  <1>1. UNCHANGED <<flushed, cur, pend>>
    BY DEF ConnectionTask, WiredStep, ReaderStep, HelperStep, WiredNone, WiredConnect,
           WiredConnectFails, WiredEventFails, WiredEventDone, WiredRegister, WiredMessage,
           WiredDrop, WiredEnd, ReadOpen, ReadEvent, ReadMessage, ReadDrop, ReadEnd, ReadJoin,
           HelperMessage, HelperRegister, HelperDrop, HelperNone, HelperEnd
  <1>2. \/ wh' = wh /\ rh' = rh
        \/ \E j \in Key : wh' = [wh EXCEPT ![s][j] = "open"] /\ rh' = [rh EXCEPT ![s][j] = "open"]
    <2>1. ~WiredConnectFails(s)
      BY UpWrites DEF WiredConnectFails
    <2>2. CASE WiredConnect(s)
      BY <2>2, NextIdType DEF WiredConnect
    <2>3. CASE ReadOpen(s)
      BY <2>3, ReadsId
    <2>4. CASE ~WiredConnect(s) /\ ~ReadOpen(s)
      BY <2>1, <2>4
         DEF ConnectionTask, WiredStep, ReaderStep, HelperStep, WiredNone,
             WiredEventFails, WiredEventDone, WiredRegister, WiredMessage,
             WiredDrop, WiredEnd, ReadEvent, ReadMessage, ReadDrop, ReadEnd, ReadJoin,
             HelperMessage, HelperRegister, HelperDrop, HelperNone, HelperEnd
    <2> QED BY <2>2, <2>3, <2>4
  <1>3. ASSUME NEW x \in Side, NEW k \in Key
        PROVE  /\ wh'[x][k] = wh[x][k] \/ wh'[x][k] = "open"
               /\ rh'[x][k] = rh[x][k] \/ rh'[x][k] = "open"
    <2>1. /\ wh \in [Side -> [Key -> {"none", "open", "shut", "dropped"}]]
          /\ rh \in [Side -> [Key -> {"none", "open", "dropped"}]]
      BY DEF TypeOK
    <2>2. CASE wh' = wh /\ rh' = rh
      BY <2>2
    <2>3. ASSUME NEW j \in Key, wh' = [wh EXCEPT ![s][j] = "open"],
                 rh' = [rh EXCEPT ![s][j] = "open"]
          PROVE  /\ wh'[x][k] = wh[x][k] \/ wh'[x][k] = "open"
                 /\ rh'[x][k] = rh[x][k] \/ rh'[x][k] = "open"
      BY <2>1, <2>3
    <2> QED BY <1>2, <2>2, <2>3
  <1>4. \A x \in Side : KeyAt(c, x) \in Key
    BY KeyAtType
  <1> QED BY <1>1, <1>3, <1>4 DEF HalvesStill

\* A task or the application of one channel leaves the others alone.
LEMMA OtherChannel ==
  ASSUME TypeOK, ChannelTypes, NEW c \in Channel, NEW d \in Channel, c # d, OwnStep(d)
  PROVE  ChannelStill(c) /\ HalvesStill(c)
  <1> USE ChannelEnds
  <1>1. ChannelStill(c)
    <2> USE DEF ChannelStill, ChannelTypes, SameApps, Ends
    <2>1. CASE ChannelTask(d)
      <3>1. /\ UNCHANGED <<sent, txGone, rxGone>>
            /\ got' = got \/ \E g : got' = [got EXCEPT ![d] = g]
            /\ over' = over \/ \E o : over' = [over EXCEPT ![d] = o]
        <4>1. CASE WriterTakes(d) \/ WriterFails(d) \/ WriterFlushed(d) \/ WriterDone(d) \/ WriterWatch(d)
          BY <4>1 DEF WriterTakes, WriterFails, WriterFlushed, WriterDone, WriterWatch
        <4>2. CASE ReaderTakes(d)
          BY <4>2 DEF ReaderTakes
        <4>3. CASE ReaderEnds(d) \/ ReaderWatch(d) \/ ReaderClosed(d) \/ \E s \in Side : LetGo(d, s)
          BY <4>3 DEF ReaderEnds, ReaderWatch, ReaderClosed, LetGo, chanVars
        <4> QED BY <2>1, <4>1, <4>2, <4>3 DEF ChannelTask
      <3> QED BY <3>1
    <2>2. CASE Accept(d)
      BY <2>2 DEF Accept
    <2>3. CASE DropTx(d) \/ DropRx(d)
      BY <2>3 DEF DropTx, DropRx
    <2> QED BY <2>1, <2>2, <2>3 DEF OwnStep
  <1>2. UNCHANGED vars \/ \E s \in Side : HalfStep(s, KeyAt(d, s))
    BY TaskHalves DEF OwnStep, Accept, DropTx, DropRx
  <1>3. UNCHANGED vars => HalvesStill(c)
    BY DEF vars, halfVars, HalvesStill
  <1>4. ASSUME NEW s \in Side, HalfStep(s, KeyAt(d, s))
        PROVE  HalvesStill(c)
    <2>1. KeyAt(d, s) \in Key /\ KeyAt(d, s) # KeyAt(c, s)
      BY KeyAtType
    <2> QED BY <1>4, <2>1, OtherHalf
  <1> QED BY <1>1, <1>2, <1>3, <1>4

\* A step is one of a channel's own tasks and applications, or leaves it alone.
LEMMA WhoseStep ==
  ASSUME TypeOK, OpenedOnce, UpInv, Up, ChannelTypes, [TaskStep \/ UserStep]_allVars,
         NEW c \in Channel
  PROVE  OwnStep(c) \/ (ChannelStill(c) /\ HalvesStill(c))
  <1> USE ChannelEnds
  <1>1. UNCHANGED chanVars => ChannelStill(c)
    BY DEF chanVars, ChannelStill
  <1>2. UNCHANGED halfVars => HalvesStill(c)
    BY DEF halfVars, HalvesStill
  <1>3. CASE UNCHANGED allVars
    BY <1>1, <1>2, <1>3 DEF allVars, vars
  <1>4. ASSUME NEW s \in Side, ConnectionTask(s)
        PROVE  ChannelStill(c) /\ HalvesStill(c)
    BY <1>1, <1>4, TasksOfConnection DEF ConnectionTask
  <1>5. ASSUME NEW s \in Side, HeldFlushEnd(s) \/ HeldStep(s)
        PROVE  ChannelStill(c) /\ HalvesStill(c)
    <2>1. s # c
      BY <1>5 DEF HeldFlushEnd, HeldStep, Channel
    <2>2. \E x \in Side : HalfStep(x, KeyAt(s, x))
      BY <1>5, KeyAtType DEF HeldFlushEnd, HeldStep, HalfStep
    <2>3. PICK x \in Side : HalfStep(x, KeyAt(s, x))
      BY <2>2
    <2>4. KeyAt(s, x) \in Key /\ KeyAt(s, x) # KeyAt(c, x)
      BY <2>1, KeyAtType
    <2>5. HalvesStill(c)
      BY <2>3, <2>4, OtherHalf
    <2> QED BY <1>1, <1>5, <2>5 DEF HeldFlushEnd, HeldStep
  <1>6. ASSUME NEW s \in Side, HandleStep(s)
        PROVE  ChannelStill(c) /\ HalvesStill(c)
    BY <1>1, <1>2, <1>6 DEF HandleStep, Send, SendNone, Shutdown, Abort, AbandonShutdown, Break
  <1>7. ASSUME NEW d \in Channel, OwnStep(d)
        PROVE  OwnStep(c) \/ (ChannelStill(c) /\ HalvesStill(c))
    BY <1>7, OtherChannel
  <1> QED BY <1>3, <1>4, <1>5, <1>6, <1>7 DEF TaskStep, UserStep, OwnStep

-----------------------------------------------------------------------------
(* What is known of the two ends of a channel, while nothing is torn down.   *)

\* The values: those flushed have been accepted, and what the receiver has got is the first.
ValuesAt(c, w, kw, r, kr) ==
  /\ flushed[w][kw] <= sent[c] /\ cur[w][kw] = 0
  /\ cur[r][kr] = 1 => arr[r][kr] # <<>>
  /\ got[c] = <<>> \/ (got[c] = <<1>> /\ cur[r][kr] = 1)
\* The halves of the stream go only when the task that holds them is over.
HalvesHeldAt(c, w, kw, r, kr) ==
  /\ wh[w][kw] \in {"shut", "dropped"} => Released(c, w, "write")
  /\ rh[w][kw] = "dropped" => Released(c, w, "read")
  /\ wh[r][kr] \in {"shut", "dropped"} => Released(c, r, "write")
  /\ rh[r][kr] = "dropped" => Released(c, r, "read")
\* The tasks of the writer end when all is flushed and the senders are gone, or else because
\* the reader's side has let the stream go.  That ends when its receiver is gone, or has been
\* given the first value, or nothing was accepted and nothing will be.
TasksEndAt(c, w, kw, r, kr) ==
  /\ cur[r][kr] = 1 /\ ~rxGone[c] => got[c] # <<>>
  /\ "reader_watch" \in over[c] => rxGone[c] \/ "reader" \in over[c]
  /\ {"writer", "writer_watch"} \cap over[c] # {} =>
       Gone(r, kr) \/ (txGone[c] /\ flushed[w][kw] = sent[c] /\ ~pend[w][kw])
  /\ "reader" \in over[c] /\ ~rxGone[c] => got[c] # <<>> \/ (txGone[c] /\ sent[c] = 0)
EndsAt(c, w, kw, r, kr) ==
  ValuesAt(c, w, kw, r, kr) /\ HalvesHeldAt(c, w, kw, r, kr) /\ TasksEndAt(c, w, kw, r, kr)

\* w and r are the two ends of the channel of c.
AreEnds(c, w, kw, r, kr) ==
  w = WriterSide(c) /\ r = ReaderSide(c) /\ kw = WKey(c) /\ kr = RKey(c)
Known(c, w, kw, r, kr) ==
  /\ AreEnds(c, w, kw, r, kr) /\ HeldInv /\ Placed /\ Up /\ ChannelTypes
  /\ EndsAt(c, w, kw, r, kr) /\ WayKey(w, kw)

LEMMA EndsOfStream ==
  ASSUME NEW c \in Channel, NEW w, NEW kw, NEW r, NEW kr, AreEnds(c, w, kw, r, kr)
  PROVE  /\ c \in Side /\ w \in Side /\ r \in Side /\ kw \in Key /\ kr \in Key
         /\ Peer(w) = r /\ Peer(r) = w /\ w # r /\ \A s \in Side : s = w \/ s = r
         /\ Mirror(kw) = kr /\ Mirror(kr) = kw /\ KeyAt(c, w) = kw /\ KeyAt(c, r) = kr
         /\ Parted(w, kw) <=> Gone(w, kw) \/ Gone(r, kr)
         /\ Parted(r, kr) <=> Gone(w, kw) \/ Gone(r, kr)
  BY ChannelEnds DEF AreEnds, WKey, RKey, Parted

LEMMA AppsHold ==
  ASSUME UpInv, Up, NEW c \in Channel
  PROVE  (TxHeld(c) <=> ~txGone[c]) /\ (RxHeld(c) <=> ~rxGone[c])
  <1>1. c \in Side /\ Peer(c) \in Side
    BY PeerSide DEF Channel
  <1> QED BY <1>1 DEF TxHeld, RxHeld, Torn, UpInv, UpSide

\* Which tasks stand for the halves.
LEMMA WhoReleases ==
  ASSUME NEW c \in Channel, NEW w, NEW kw, NEW r, NEW kr, AreEnds(c, w, kw, r, kr)
  PROVE  /\ \A h : Released(c, w, h) => {"writer", "writer_watch"} \cap over[c] # {}
         /\ \A h : Released(c, r, h) => "reader" \in over[c] \/ "reader_watch" \in over[c]
         /\ Released(c, r, "read") => "reader" \in over[c]
         /\ Released(c, r, "write") <=> (IF KindOf(c) \in OneShot THEN "reader" ELSE "reader_watch") \in over[c]
  BY EndsOfStream DEF Released, AreEnds

LEMMA KnownTypes ==
  ASSUME NEW c \in Channel, NEW w, NEW kw, NEW r, NEW kr, AreEnds(c, w, kw, r, kr),
         TypeOK, ChannelTypes
  PROVE  /\ flushed[w][kw] \in Nat /\ cur[w][kw] \in 0..1 /\ cur[r][kr] \in 0..1
         /\ pend[w][kw] \in BOOLEAN /\ arr[r][kr] \in Seq(Nat \ {0}) /\ arr[w][kw] \in Seq(Nat \ {0})
         /\ wh[w][kw] \in {"none", "open", "shut", "dropped"} /\ rh[w][kw] \in {"none", "open", "dropped"}
         /\ wh[r][kr] \in {"none", "open", "shut", "dropped"} /\ rh[r][kr] \in {"none", "open", "dropped"}
         /\ sent[c] \in Nat /\ got[c] \in Seq(Nat) /\ over[c] \in SUBSET Task
         /\ txGone[c] \in BOOLEAN /\ rxGone[c] \in BOOLEAN
  <1>1. c \in Side /\ w \in Side /\ r \in Side /\ kw \in Key /\ kr \in Key
    BY EndsOfStream
  <1>2. /\ flushed[w][kw] \in Nat /\ cur[w][kw] \in 0..1 /\ cur[r][kr] \in 0..1
        /\ pend[w][kw] \in BOOLEAN
    BY <1>1 DEF TypeOK
  <1>3. arr[r][kr] \in Seq(Nat \ {0}) /\ arr[w][kw] \in Seq(Nat \ {0})
    BY <1>1 DEF TypeOK
  <1>4. /\ wh[w][kw] \in {"none", "open", "shut", "dropped"}
        /\ wh[r][kr] \in {"none", "open", "shut", "dropped"}
        /\ rh[w][kw] \in {"none", "open", "dropped"} /\ rh[r][kr] \in {"none", "open", "dropped"}
    BY <1>1 DEF TypeOK
  <1>5. /\ sent[c] \in Nat /\ got[c] \in Seq(Nat) /\ over[c] \in SUBSET Task
        /\ txGone[c] \in BOOLEAN /\ rxGone[c] \in BOOLEAN
    BY <1>1 DEF ChannelTypes
  <1> QED BY <1>2, <1>3, <1>4, <1>5

LEMMA KnownGone ==
  ASSUME NEW c \in Channel, NEW w, NEW kw, NEW r, NEW kr, Known(c, w, kw, r, kr)
  PROVE  /\ Gone(w, kw) => Gone(r, kr) \/ (txGone[c] /\ flushed[w][kw] = sent[c] /\ ~pend[w][kw])
         /\ Gone(r, kr) => rxGone[c] \/ "reader" \in over[c]
  BY WhoReleases DEF Known, EndsAt, HalvesHeldAt, TasksEndAt, Gone

\* A half that has lost its task or its tx, with the stream open: the stream is let go.
LEMMA LostOne ==
  ASSUME HeldInv, Up, NEW s \in Side, NEW k \in Key, wh[s][k] # "none" \/ rh[s][k] # "none",
         ~RxAlive(s, k) \/ ~TxAlive(s, k)
  PROVE  Parted(s, k)
  <1>1. Opened(s, k)
    BY KnownOpened DEF HeldInv
  <1>2. TornKey(s, k)
    BY DEF HeldInv, TornInv
  <1> QED BY <1>1, <1>2 DEF TornKey, Source, Sink

\* What has been delivered was flushed, the first message first.
LEMMA FirstIsOne ==
  ASSUME HeldInv, NEW p \in Side, NEW m \in Key, arr[p][m] # <<>>
  PROVE  Head(arr[p][m]) = 1 /\ flushed[Peer(p)][Mirror(m)] > 0
  <1>1. PICK b \in Nat, d \in Nat : InOrder(p, m) /\ Path(p, m, b, d)
    BY DEF HeldInv, PathInv, PathKey
  <1>2. /\ arr[p][m] \in Seq(Nat \ {0}) /\ Len(arr[p][m]) \in Nat /\ Flushed(p, m) \in Nat
        /\ TypeOK
    BY PathTypes DEF HeldInv
  <1>3. Len(arr[p][m]) > 0
    BY <1>2
  <1>4. Head(arr[p][m]) = 1
    BY <1>1, <1>2, <1>3 DEF InOrder
  <1>5. Flushed(p, m) >= Len(arr[p][m])
    BY <1>1, <1>2 DEF Path
  <1> QED BY <1>2, <1>3, <1>4, <1>5 DEF Flushed

-----------------------------------------------------------------------------
(* Steps that are not the channel's leave that alone.                       *)

LEMMA StaysReleased ==
  ASSUME NEW c, scene' = scene, over[c] \subseteq over'[c], NEW s, NEW h, Released(c, s, h)
  PROVE  Released(c, s, h)'
  BY ChannelFixed DEF Released

LEMMA HalvesKept ==
  ASSUME NEW c \in Channel, NEW w, NEW kw, NEW r, NEW kr, HalvesHeldAt(c, w, kw, r, kr),
         scene' = scene, over[c] \subseteq over'[c],
         wh'[w][kw] \in {"shut", "dropped"} => wh[w][kw] \in {"shut", "dropped"},
         wh'[r][kr] \in {"shut", "dropped"} => wh[r][kr] \in {"shut", "dropped"},
         rh'[w][kw] = "dropped" => rh[w][kw] = "dropped",
         rh'[r][kr] = "dropped" => rh[r][kr] = "dropped"
  PROVE  HalvesHeldAt(c, w, kw, r, kr)'
  BY StaysReleased DEF HalvesHeldAt

\* What has been delivered is not taken back.
LEMMA DeliveredStays ==
  ASSUME TypeOK, UpInv, Up, Up', [Next]_vars, NEW x \in Side, NEW k \in Key, arr[x][k] # <<>>
  PROVE  arr'[x][k] # <<>>
  <1>1. arr \in [Side -> [Key -> Seq(Nat \ {0})]]
    BY DEF TypeOK
  <1>2. ASSUME NEW s \in Side, HelperMessage(s)
        PROVE  arr'[x][k] # <<>>
    <2>1. HelperAt(s, "data")
      BY <1>2 DEF HelperMessage
    <2>2. Head(uq[s]).k \in Key /\ Head(uq[s]).n \in Nat \ {0}
      BY <2>1, HeadU
    <2> DEFINE j == Head(uq[s]).k
               n == Head(uq[s]).n
    <2> HIDE DEF j, n
    <2>3. arr' = arr \/ arr' = [arr EXCEPT ![s][j] = Append(@, n)]
      BY <1>2 DEF HelperMessage, j, n
    <2>4. j \in Key /\ n \in Nat \ {0} /\ arr[s][j] \in Seq(Nat \ {0})
      BY <1>1, <2>2 DEF j, n
    <2>5. Append(arr[s][j], n) # <<>>
      <3>1. \A q \in Seq(Nat \ {0}), e \in Nat \ {0} : Append(q, e) # <<>>
        OBVIOUS
      <3> QED BY <2>4, <3>1
    <2> QED BY <1>1, <2>3, <2>4, <2>5
  <1>3. CASE UNCHANGED vars
    BY <1>3 DEF vars
  <1>4. ASSUME NEW s \in Side,
               \/ WiredConnect(s) \/ WiredEventDone(s) \/ WiredRegister(s) \/ WiredMessage(s)
               \/ WiredDrop(s) \/ ReadOpen(s) \/ ReadEvent(s) \/ ReadMessage(s) \/ ReadDrop(s)
               \/ HelperRegister(s) \/ HelperDrop(s)
               \/ \E n \in 0..MaxChans : Send(s, n)
               \/ \E j \in Key : HalfStep(s, j)
        PROVE  arr' = arr
    BY <1>4 DEF WiredConnect, WiredEventDone, WiredRegister, WiredMessage, WiredDrop, ReadOpen,
                ReadEvent, ReadMessage, ReadDrop, HelperRegister, HelperDrop, Send, HalfStep,
                FlushBegin, FlushEnd, ShutWrite, DropWrite, DropRead, PollRead, PollReadEof
  <1> QED BY <1>2, <1>3, <1>4, UpSteps

LEMMA EndsStill ==
  ASSUME NEW c \in Channel, NEW w, NEW kw, NEW r, NEW kr, Known(c, w, kw, r, kr),
         scene' = scene, ChannelStill(c), HalvesStill(c),
         Gone(r, kr) => Gone(r, kr)', arr[r][kr] # <<>> => arr'[r][kr] # <<>>
  PROVE  EndsAt(c, w, kw, r, kr)'
  <1>1. AreEnds(c, w, kw, r, kr) /\ EndsAt(c, w, kw, r, kr)
    BY DEF Known
  <1>2. w \in Side /\ r \in Side /\ KeyAt(c, w) = kw /\ KeyAt(c, r) = kr
    BY <1>1, EndsOfStream
  <1>3. /\ flushed'[w][kw] = flushed[w][kw] /\ cur'[w][kw] = cur[w][kw] /\ pend'[w][kw] = pend[w][kw]
        /\ cur'[r][kr] = cur[r][kr]
        /\ wh'[w][kw] \in {"shut", "dropped"} => wh[w][kw] \in {"shut", "dropped"}
        /\ wh'[r][kr] \in {"shut", "dropped"} => wh[r][kr] \in {"shut", "dropped"}
        /\ rh'[w][kw] = "dropped" => rh[w][kw] = "dropped"
        /\ rh'[r][kr] = "dropped" => rh[r][kr] = "dropped"
    BY <1>2 DEF HalvesStill
  <1>4. /\ sent'[c] = sent[c] /\ got'[c] = got[c] /\ over'[c] = over[c]
        /\ txGone'[c] = txGone[c] /\ rxGone'[c] = rxGone[c]
    BY DEF ChannelStill
  <1>5. ValuesAt(c, w, kw, r, kr)'
    BY <1>1, <1>3, <1>4 DEF EndsAt, ValuesAt
  <1>6. HalvesHeldAt(c, w, kw, r, kr)'
    BY <1>1, <1>3, <1>4, HalvesKept DEF EndsAt
  <1>7. TasksEndAt(c, w, kw, r, kr)'
    BY <1>1, <1>3, <1>4 DEF EndsAt, TasksEndAt
  <1> QED BY <1>5, <1>6, <1>7 DEF EndsAt

-----------------------------------------------------------------------------
(* The tasks of the writer.                                                 *)

LEMMA EndsWriterTakes ==
  ASSUME NEW c \in Channel, NEW w, NEW kw, NEW r, NEW kr, Known(c, w, kw, r, kr),
         scene' = scene, Gone(r, kr) => Gone(r, kr)', WriterTakes(c)
  PROVE  EndsAt(c, w, kw, r, kr)'
  <1>1. AreEnds(c, w, kw, r, kr) /\ EndsAt(c, w, kw, r, kr) /\ TypeOK /\ ChannelTypes
    BY DEF Known, HeldInv
  <1>2. w \in Side /\ r \in Side /\ kw \in Key /\ kr \in Key /\ w # r
    BY <1>1, EndsOfStream
  <1>3. /\ sent[c] > flushed[w][kw] /\ "writer" \notin over[c] /\ FlushBegin(w, kw)
        /\ UNCHANGED <<sent, txGone, rxGone, over, got>>
    BY <1>1 DEF WriterTakes, Runs, SameApps, AreEnds, WKey
  <1>4. /\ flushed' = [flushed EXCEPT ![w][kw] = @ + 1] /\ pend' = [pend EXCEPT ![w][kw] = TRUE]
        /\ UNCHANGED <<cur, arr, wh, rh>>
    BY <1>3 DEF FlushBegin
  <1>5. flushed'[w][kw] = flushed[w][kw] + 1
    BY <1>1, <1>2, <1>4 DEF TypeOK
  <1>6. flushed[w][kw] \in Nat /\ sent[c] \in Nat
    BY <1>1, KnownTypes
  <1>7. ValuesAt(c, w, kw, r, kr)'
    BY <1>1, <1>3, <1>4, <1>5, <1>6 DEF EndsAt, ValuesAt
  <1>8. HalvesHeldAt(c, w, kw, r, kr)'
    BY <1>1, <1>3, <1>4, HalvesKept DEF EndsAt
  <1>9. {"writer", "writer_watch"} \cap over[c] # {} => Gone(r, kr)
    BY <1>1, <1>3, <1>6 DEF EndsAt, TasksEndAt
  <1>10. TasksEndAt(c, w, kw, r, kr)'
    BY <1>1, <1>3, <1>4, <1>9 DEF EndsAt, TasksEndAt
  <1> QED BY <1>7, <1>8, <1>10 DEF EndsAt

\* What a task that ends leaves alone.
LEMMA EndsOver ==
  ASSUME NEW c \in Channel, ChannelTypes, NEW tasks, Ends(c, tasks)
  PROVE  over'[c] = over[c] \cup tasks /\ over[c] \subseteq over'[c]
  BY ChannelEnds DEF ChannelTypes, Ends

\* A task of the writer ends.
LEMMA EndsWriter ==
  ASSUME NEW c \in Channel, NEW w, NEW kw, NEW r, NEW kr, Known(c, w, kw, r, kr),
         scene' = scene, Gone(r, kr) => Gone(r, kr)',
         NEW tasks \in SUBSET {"writer", "writer_watch"}, Ends(c, tasks),
         UNCHANGED <<sent, txGone, rxGone, got, flushed, pend, cur, arr, wh, rh>>,
         Gone(r, kr) \/ (txGone[c] /\ flushed[w][kw] = sent[c] /\ ~pend[w][kw])
  PROVE  EndsAt(c, w, kw, r, kr)'
  <1>1. EndsAt(c, w, kw, r, kr) /\ ChannelTypes
    BY DEF Known
  <1>2. over'[c] = over[c] \cup tasks /\ over[c] \subseteq over'[c]
    BY <1>1, EndsOver
  <1>3. ValuesAt(c, w, kw, r, kr)'
    BY <1>1 DEF EndsAt, ValuesAt
  <1>4. HalvesHeldAt(c, w, kw, r, kr)'
    BY <1>1, <1>2, HalvesKept DEF EndsAt
  <1>5. TasksEndAt(c, w, kw, r, kr)'
    BY <1>1, <1>2 DEF EndsAt, TasksEndAt
  <1> QED BY <1>3, <1>4, <1>5 DEF EndsAt

LEMMA EndsWriterFails ==
  ASSUME NEW c \in Channel, NEW w, NEW kw, NEW r, NEW kr, Known(c, w, kw, r, kr),
         scene' = scene, Gone(r, kr) => Gone(r, kr)', WriterFails(c)
  PROVE  EndsAt(c, w, kw, r, kr)'
  <1>1. AreEnds(c, w, kw, r, kr) /\ HeldInv /\ Up /\ TypeOK /\ ChannelTypes
    BY DEF Known, HeldInv
  <1>2. w \in Side /\ kw \in Key /\ SideOf(c, "writer") = w
    BY <1>1, EndsOfStream DEF SideOf, AreEnds
  <1>3. /\ sent[c] > flushed[w][kw] /\ ~RxAlive(w, kw) /\ wh[w][kw] # "none"
        /\ Ends(c, {"writer"}) /\ UNCHANGED <<vars, sent, txGone, rxGone, got>>
    BY <1>1, <1>2 DEF WriterFails, Runs, HalfOf, SameApps, AreEnds, WKey
  <1>4. Gone(w, kw) \/ Gone(r, kr)
    BY <1>1, <1>2, <1>3, LostOne, EndsOfStream
  <1>5. flushed[w][kw] \in Nat /\ sent[c] \in Nat
    BY <1>1, KnownTypes
  <1>6. Gone(r, kr)
    BY <1>3, <1>4, <1>5, KnownGone
  <1>7. UNCHANGED <<flushed, pend, cur, arr, wh, rh>>
    BY <1>3 DEF vars, halfVars
  <1> QED BY <1>3, <1>6, <1>7, EndsWriter

LEMMA EndsWriterFlushed ==
  ASSUME NEW c \in Channel, NEW w, NEW kw, NEW r, NEW kr, Known(c, w, kw, r, kr),
         scene' = scene, Gone(r, kr) => Gone(r, kr)', WriterFlushed(c)
  PROVE  EndsAt(c, w, kw, r, kr)'
  <1>1. AreEnds(c, w, kw, r, kr) /\ EndsAt(c, w, kw, r, kr) /\ UpInv /\ Up
    BY DEF Known, HeldInv
  <1>2. w \in Side
    BY <1>1, EndsOfStream
  <1>3. wstate[w] = "open"
    BY <1>1, <1>2 DEF UpInv, UpSide
  <1>4. FlushEnd(w, kw) /\ UNCHANGED <<sent, txGone, rxGone, over, got>>
    BY <1>1, <1>3 DEF WriterFlushed, SameApps, AreEnds, WKey
  <1>5. pend[w][kw] /\ UNCHANGED <<flushed, cur, arr, wh, rh>>
    BY <1>4 DEF FlushEnd
  <1>6. ValuesAt(c, w, kw, r, kr)'
    BY <1>1, <1>4, <1>5 DEF EndsAt, ValuesAt
  <1>7. HalvesHeldAt(c, w, kw, r, kr)'
    BY <1>1, <1>4, <1>5, HalvesKept DEF EndsAt
  <1>8. TasksEndAt(c, w, kw, r, kr)'
    BY <1>1, <1>4, <1>5 DEF EndsAt, TasksEndAt
  <1> QED BY <1>6, <1>7, <1>8 DEF EndsAt

LEMMA EndsWriterDone ==
  ASSUME NEW c \in Channel, NEW w, NEW kw, NEW r, NEW kr, Known(c, w, kw, r, kr),
         scene' = scene, Gone(r, kr) => Gone(r, kr)', WriterDone(c)
  PROVE  EndsAt(c, w, kw, r, kr)'
  <1>1. AreEnds(c, w, kw, r, kr) /\ UpInv /\ Up
    BY DEF Known, HeldInv
  <1>2. txGone[c]
    BY <1>1, AppsHold DEF WriterDone
  <1>3. /\ flushed[w][kw] = sent[c] /\ ~pend[w][kw] /\ Ends(c, {"writer"})
        /\ UNCHANGED <<vars, sent, txGone, rxGone, got>>
    BY <1>1 DEF WriterDone, SameApps, AreEnds, WKey
  <1>4. UNCHANGED <<flushed, pend, cur, arr, wh, rh>>
    BY <1>3 DEF vars, halfVars
  <1> QED BY <1>2, <1>3, <1>4, EndsWriter

LEMMA EndsWriterWatch ==
  ASSUME NEW c \in Channel, NEW w, NEW kw, NEW r, NEW kr, Known(c, w, kw, r, kr),
         scene' = scene, Gone(r, kr) => Gone(r, kr)', WriterWatch(c)
  PROVE  EndsAt(c, w, kw, r, kr)'
  <1>1. AreEnds(c, w, kw, r, kr) /\ HeldInv /\ Up /\ EndsAt(c, w, kw, r, kr)
    BY DEF Known
  <1>2. w \in Side /\ kw \in Key
    BY <1>1, EndsOfStream
  <1>3. /\ PollReadEof(w, kw) /\ Ends(c, {"writer", "writer_watch"})
        /\ UNCHANGED <<sent, txGone, rxGone, got>>
    BY <1>1 DEF WriterWatch, SameApps, AreEnds, WKey
  <1>4. cur[w][kw] = 0
    BY <1>1 DEF EndsAt, ValuesAt
  <1>5. /\ rh[w][kw] = "open" /\ ~TxAlive(w, kw)
        /\ UNCHANGED <<flushed, pend, cur, arr, wh, rh>>
    BY <1>3, <1>4 DEF PollReadEof
  <1>6. Gone(w, kw) \/ Gone(r, kr)
    BY <1>1, <1>2, <1>5, LostOne, EndsOfStream
  <1>7. Gone(r, kr) \/ (txGone[c] /\ flushed[w][kw] = sent[c] /\ ~pend[w][kw])
    BY <1>6, KnownGone
  <1> QED BY <1>3, <1>5, <1>7, EndsWriter

-----------------------------------------------------------------------------
(* The tasks of the reader.                                                 *)

\* A task of the reader ends.
LEMMA EndsReader ==
  ASSUME NEW c \in Channel, NEW w, NEW kw, NEW r, NEW kr, Known(c, w, kw, r, kr),
         scene' = scene, Gone(r, kr) => Gone(r, kr)',
         NEW tasks \in SUBSET {"reader", "reader_watch"}, Ends(c, tasks),
         UNCHANGED <<sent, txGone, rxGone, got, flushed, pend, cur, arr, wh, rh>>,
         "reader_watch" \in tasks => rxGone[c] \/ "reader" \in over'[c],
         "reader" \in tasks /\ ~rxGone[c] => got[c] # <<>> \/ (txGone[c] /\ sent[c] = 0)
  PROVE  EndsAt(c, w, kw, r, kr)'
  <1>1. EndsAt(c, w, kw, r, kr) /\ ChannelTypes
    BY DEF Known
  <1>2. over'[c] = over[c] \cup tasks /\ over[c] \subseteq over'[c]
    BY <1>1, EndsOver
  <1>3. ValuesAt(c, w, kw, r, kr)'
    BY <1>1 DEF EndsAt, ValuesAt
  <1>4. HalvesHeldAt(c, w, kw, r, kr)'
    BY <1>1, <1>2, HalvesKept DEF EndsAt
  <1>5. TasksEndAt(c, w, kw, r, kr)'
    BY <1>1, <1>2 DEF EndsAt, TasksEndAt
  <1> QED BY <1>3, <1>4, <1>5 DEF EndsAt

LEMMA EndsReaderTakes ==
  ASSUME NEW c \in Channel, NEW w, NEW kw, NEW r, NEW kr, Known(c, w, kw, r, kr),
         scene' = scene, Gone(r, kr) => Gone(r, kr)', ReaderTakes(c)
  PROVE  EndsAt(c, w, kw, r, kr)'
  <1>1. /\ AreEnds(c, w, kw, r, kr) /\ EndsAt(c, w, kw, r, kr) /\ HeldInv /\ Up /\ ChannelTypes
        /\ TypeOK /\ UpInv
    BY DEF Known, HeldInv
  <1>2. c \in Side /\ w \in Side /\ r \in Side /\ kw \in Key /\ kr \in Key /\ w # r
    BY <1>1, EndsOfStream
  <1>3. RxHeld(c) <=> ~rxGone[c]
    BY <1>1, AppsHold
  <1>4. /\ PollRead(r, kr) /\ UNCHANGED <<sent, txGone, rxGone>>
        /\ got' = IF RxHeld(c) THEN [got EXCEPT ![c] = Append(@, Head(arr[r][kr]))] ELSE got
        /\ IF RxHeld(c) /\ KindOf(c) \notin OneShot THEN over' = over ELSE Ends(c, ReaderTasks(c))
    BY <1>1 DEF ReaderTakes, SameApps, AreEnds, RKey
  <1>5. /\ cur[r][kr] = 0 /\ arr[r][kr] # <<>> /\ cur' = [cur EXCEPT ![r][kr] = 1]
        /\ UNCHANGED <<flushed, pend, arr, wh, rh>>
    BY <1>4 DEF PollRead
  <1>6. cur'[r][kr] = 1 /\ cur'[w][kw] = cur[w][kw]
    BY <1>1, <1>2, <1>5 DEF TypeOK
  <1>7. over'[c] = over[c] \/ over'[c] = over[c] \cup ReaderTasks(c)
    BY <1>1, <1>4, EndsOver
  <1>8. over[c] \subseteq over'[c] /\ ReaderTasks(c) \subseteq {"reader", "reader_watch"}
        /\ "reader" \in ReaderTasks(c)
    BY <1>7 DEF ReaderTasks
  <1>9. got[c] = <<>>
    BY <1>1, <1>5 DEF EndsAt, ValuesAt
  <1>10. ~rxGone[c] => got'[c] = <<1>>
    <2>1. Head(arr[r][kr]) = 1
      BY <1>1, <1>2, <1>5, FirstIsOne
    <2>2. ~rxGone[c] => got'[c] = Append(got[c], 1)
      BY <1>1, <1>2, <1>3, <1>4, <2>1 DEF ChannelTypes
    <2> QED BY <1>9, <2>2
  <1>11. rxGone[c] => got'[c] = got[c]
    BY <1>3, <1>4
  <1>12. ValuesAt(c, w, kw, r, kr)'
    BY <1>1, <1>4, <1>5, <1>6, <1>9, <1>10, <1>11, KnownTypes DEF EndsAt, ValuesAt
  <1>13. HalvesHeldAt(c, w, kw, r, kr)'
    BY <1>1, <1>5, <1>8, HalvesKept DEF EndsAt
  <1>14. TasksEndAt(c, w, kw, r, kr)'
    <2>1. <<1>> # <<>>
      OBVIOUS
    <2>2. "reader_watch" \in over'[c] => rxGone'[c] \/ "reader" \in over'[c]
      BY <1>1, <1>4, <1>7, <1>8 DEF EndsAt, TasksEndAt
    <2>3. ~rxGone'[c] => got'[c] # <<>>
      BY <1>4, <1>10, <2>1
    <2>4. {"writer", "writer_watch"} \cap over'[c] # {} =>
            Gone(r, kr)' \/ (txGone'[c] /\ flushed'[w][kw] = sent'[c] /\ ~pend'[w][kw])
      <3>1. {"writer", "writer_watch"} \cap over'[c] = {"writer", "writer_watch"} \cap over[c]
        BY <1>7, <1>8
      <3> QED BY <1>1, <1>4, <1>5, <3>1 DEF EndsAt, TasksEndAt
    <2> QED BY <2>2, <2>3, <2>4 DEF TasksEndAt
  <1> QED BY <1>12, <1>13, <1>14 DEF EndsAt

\* The reader sees the end of the stream: what was flushed first it has had, or it would be
\* on its way.
LEMMA EndsReaderEnds ==
  ASSUME NEW c \in Channel, NEW w, NEW kw, NEW r, NEW kr, Known(c, w, kw, r, kr),
         scene' = scene, Gone(r, kr) => Gone(r, kr)', ReaderEnds(c)
  PROVE  EndsAt(c, w, kw, r, kr)'
  <1>1. /\ AreEnds(c, w, kw, r, kr) /\ EndsAt(c, w, kw, r, kr) /\ HeldInv /\ Up /\ ChannelTypes
        /\ TypeOK
    BY DEF Known, HeldInv
  <1>2. /\ w \in Side /\ r \in Side /\ kw \in Key /\ kr \in Key
        /\ Peer(w) = r /\ Mirror(kw) = kr
    BY <1>1, EndsOfStream
  <1>3. /\ PollReadEof(r, kr) /\ Ends(c, ReaderTasks(c)) /\ "reader" \notin over[c]
        /\ UNCHANGED <<sent, txGone, rxGone, got>>
    BY <1>1 DEF ReaderEnds, Runs, SameApps, AreEnds, RKey
  <1>4. /\ rh[r][kr] = "open"
        /\ cur[r][kr] = 1 \/ (arr[r][kr] = <<>> /\ ~TxAlive(r, kr))
        /\ UNCHANGED <<flushed, pend, cur, arr, wh, rh>>
    BY <1>3 DEF PollReadEof
  <1>5. ASSUME ~rxGone[c]
        PROVE  got[c] # <<>> \/ (txGone[c] /\ sent[c] = 0)
    <2>1. CASE cur[r][kr] = 1
      BY <1>1, <1>5, <2>1 DEF EndsAt, TasksEndAt
    <2>2. CASE arr[r][kr] = <<>> /\ ~TxAlive(r, kr)
      <3>1. Gone(w, kw) \/ Gone(r, kr)
        BY <1>1, <1>2, <1>4, <2>2, LostOne, EndsOfStream
      <3>2. ~Gone(r, kr)
        BY <1>3, <1>5, KnownGone
      <3>3. Gone(w, kw) /\ txGone[c] /\ flushed[w][kw] = sent[c]
        BY <3>1, <3>2, KnownGone
      <3>4. ~(flushed[w][kw] > 0)
        <4> SUFFICES ASSUME flushed[w][kw] > 0 PROVE FALSE
          OBVIOUS
        <4>1. Awaits(w, kw)
          BY <1>2, <2>2, <3>2 DEF Awaits
        <4>2. FirstOnWay(w, kw)
          BY <3>3, <4>1 DEF Known, WayKey
        <4>3. Sink(r, kr)
          BY <1>2, <4>2 DEF FirstOnWay
        <4>4. Opened(r, kr)
          BY <1>1, <1>2, <1>4, KnownOpened DEF HeldInv
        <4> QED BY <2>2, <4>3, <4>4 DEF Sink
      <3> QED BY <1>1, <3>3, <3>4, KnownTypes
    <2> QED BY <1>4, <2>1, <2>2
  <1>6. ReaderTasks(c) \in SUBSET {"reader", "reader_watch"} /\ "reader" \in ReaderTasks(c)
    BY DEF ReaderTasks
  <1>7. "reader" \in over'[c]
    BY <1>1, <1>3, <1>6, EndsOver
  <1> QED BY <1>3, <1>4, <1>5, <1>6, <1>7, EndsReader

LEMMA EndsReaderWatch ==
  ASSUME NEW c \in Channel, NEW w, NEW kw, NEW r, NEW kr, Known(c, w, kw, r, kr),
         scene' = scene, Gone(r, kr) => Gone(r, kr)', ReaderWatch(c)
  PROVE  EndsAt(c, w, kw, r, kr)'
  <1>1. /\ AreEnds(c, w, kw, r, kr) /\ EndsAt(c, w, kw, r, kr) /\ UpInv /\ Up /\ ChannelTypes
        /\ TypeOK
    BY DEF Known, HeldInv
  <1>2. c \in Side /\ w \in Side /\ r \in Side /\ kw \in Key /\ kr \in Key /\ w # r
    BY <1>1, EndsOfStream
  <1>3. rxGone[c]
    BY <1>1, AppsHold DEF ReaderWatch
  <1>4. /\ ShutWrite(r, kr) /\ UNCHANGED <<sent, txGone, rxGone, got>>
        /\ Ends(c, IF KindOf(c) = "sender" THEN {"reader_watch"} ELSE {"reader", "reader_watch"})
    BY <1>1 DEF ReaderWatch, SameApps, AreEnds, RKey
  <1>5. /\ wh' = [wh EXCEPT ![r][kr] = "shut"] /\ UNCHANGED <<flushed, pend, cur, arr, rh>>
    BY <1>4 DEF ShutWrite
  <1>6. wh'[w][kw] = wh[w][kw]
    BY <1>1, <1>2, <1>5 DEF TypeOK
  <1>7. /\ over'[c] = over[c] \cup (IF KindOf(c) = "sender" THEN {"reader_watch"}
                                      ELSE {"reader", "reader_watch"})
        /\ over[c] \subseteq over'[c]
    BY <1>1, <1>4, EndsOver
  <1>8. ValuesAt(c, w, kw, r, kr)'
    BY <1>1, <1>4, <1>5 DEF EndsAt, ValuesAt
  <1>9. HalvesHeldAt(c, w, kw, r, kr)'
    <2>1. Released(c, r, "write")'
      BY <1>1, <1>2, <1>7, ChannelFixed DEF Released, OneShot, AreEnds
    <2>2. \A s, h : Released(c, s, h) => Released(c, s, h)'
      BY <1>7, StaysReleased
    <2> QED BY <1>1, <1>5, <1>6, <2>1, <2>2 DEF EndsAt, HalvesHeldAt
  <1>10. TasksEndAt(c, w, kw, r, kr)'
    <2>1. {"writer", "writer_watch"} \cap over'[c] = {"writer", "writer_watch"} \cap over[c]
      BY <1>7
    <2> QED BY <1>1, <1>3, <1>4, <1>5, <2>1 DEF EndsAt, TasksEndAt
  <1> QED BY <1>8, <1>9, <1>10 DEF EndsAt

LEMMA EndsReaderClosed ==
  ASSUME NEW c \in Channel, NEW w, NEW kw, NEW r, NEW kr, Known(c, w, kw, r, kr),
         scene' = scene, Gone(r, kr) => Gone(r, kr)', ReaderClosed(c)
  PROVE  EndsAt(c, w, kw, r, kr)'
  <1>1. rxGone[c]
    BY AppsHold DEF ReaderClosed, Known, HeldInv
  <1>2. Ends(c, {"reader"}) /\ UNCHANGED <<vars, sent, txGone, rxGone, got>>
    BY DEF ReaderClosed, SameApps
  <1>3. UNCHANGED <<flushed, pend, cur, arr, wh, rh>>
    BY <1>2 DEF vars, halfVars
  <1> QED BY <1>1, <1>2, <1>3, EndsReader

\* A task that is over lets go of its halves.
LEMMA EndsLetGo ==
  ASSUME NEW c \in Channel, NEW w, NEW kw, NEW r, NEW kr, Known(c, w, kw, r, kr),
         scene' = scene, Gone(r, kr) => Gone(r, kr)', NEW s \in Side, LetGo(c, s)
  PROVE  EndsAt(c, w, kw, r, kr)'
  <1>1. /\ AreEnds(c, w, kw, r, kr) /\ EndsAt(c, w, kw, r, kr) /\ TypeOK
    BY DEF Known, HeldInv
  <1>2. /\ w \in Side /\ r \in Side /\ kw \in Key /\ kr \in Key /\ w # r
        /\ KeyAt(c, w) = kw /\ KeyAt(c, r) = kr /\ (s = w \/ s = r) /\ KeyAt(c, s) \in Key
    BY <1>1, EndsOfStream
  <1> DEFINE k == KeyAt(c, s)
  <1>3. UNCHANGED <<scene, sent, txGone, rxGone, got, over>>
    BY DEF LetGo, chanVars
  <1>4. UNCHANGED <<flushed, pend, cur, arr>>
    BY DEF LetGo, ShutWrite, DropWrite, DropRead
  <1>5. \/ /\ Released(c, s, "write") /\ rh' = rh
           /\ \E h \in {"shut", "dropped"} : wh' = [wh EXCEPT ![s][k] = h]
        \/ Released(c, s, "read") /\ wh' = wh /\ rh' = [rh EXCEPT ![s][k] = "dropped"]
    BY DEF LetGo, ShutWrite, DropWrite, DropRead
  <1>6. \A x, h : Released(c, x, h) => Released(c, x, h)'
    BY <1>3, StaysReleased
  <1>7. ValuesAt(c, w, kw, r, kr)'
    BY <1>1, <1>3, <1>4 DEF EndsAt, ValuesAt
  <1>8. HalvesHeldAt(c, w, kw, r, kr)'
    <2>1. HalvesHeldAt(c, w, kw, r, kr)
      BY <1>1 DEF EndsAt
    <2>2. ASSUME NEW h, Released(c, s, "write"), rh' = rh, wh' = [wh EXCEPT ![s][k] = h]
          PROVE  HalvesHeldAt(c, w, kw, r, kr)'
      <3>1. \A x \in Side, j \in Key : x # s => wh'[x][j] = wh[x][j]
        BY <1>1, <2>2 DEF TypeOK
      <3> QED BY <1>2, <1>6, <2>1, <2>2, <3>1 DEF HalvesHeldAt
    <2>3. ASSUME Released(c, s, "read"), wh' = wh, rh' = [rh EXCEPT ![s][k] = "dropped"]
          PROVE  HalvesHeldAt(c, w, kw, r, kr)'
      <3>1. \A x \in Side, j \in Key : x # s => rh'[x][j] = rh[x][j]
        BY <1>1, <2>3 DEF TypeOK
      <3> QED BY <1>2, <1>6, <2>1, <2>3, <3>1 DEF HalvesHeldAt
    <2> QED BY <1>5, <2>2, <2>3
  <1>9. TasksEndAt(c, w, kw, r, kr)'
    BY <1>1, <1>3, <1>4 DEF EndsAt, TasksEndAt
  <1> QED BY <1>7, <1>8, <1>9 DEF EndsAt

-----------------------------------------------------------------------------
(* The applications of the channel, and all together.                       *)

LEMMA EndsApps ==
  ASSUME NEW c \in Channel, NEW w, NEW kw, NEW r, NEW kr, Known(c, w, kw, r, kr),
         scene' = scene, Gone(r, kr) => Gone(r, kr)', Accept(c) \/ DropTx(c) \/ DropRx(c)
  PROVE  EndsAt(c, w, kw, r, kr)'
  <1>1. /\ AreEnds(c, w, kw, r, kr) /\ EndsAt(c, w, kw, r, kr) /\ UpInv /\ Up /\ ChannelTypes
        /\ TypeOK /\ c \in Side
    BY ChannelEnds DEF Known, HeldInv
  <1>2. UNCHANGED <<flushed, pend, cur, arr, wh, rh, over, got>>
    BY DEF Accept, DropTx, DropRx, vars, halfVars
  <1>3. \/ ~txGone[c] /\ sent'[c] = sent[c] + 1 /\ rxGone'[c] = rxGone[c]
        \/ ~txGone[c] /\ txGone'[c] /\ sent'[c] = sent[c] /\ rxGone'[c] = rxGone[c]
        \/ rxGone'[c] /\ sent'[c] = sent[c] /\ txGone'[c] = txGone[c]
    BY <1>1, AppsHold DEF Accept, DropTx, DropRx, ChannelTypes
  <1>4. flushed[w][kw] \in Nat /\ sent[c] \in Nat
    BY <1>1, KnownTypes
  <1>5. ValuesAt(c, w, kw, r, kr)'
    BY <1>1, <1>2, <1>3, <1>4 DEF EndsAt, ValuesAt
  <1>6. HalvesHeldAt(c, w, kw, r, kr)'
    BY <1>1, <1>2, HalvesKept DEF EndsAt
  <1>7. TasksEndAt(c, w, kw, r, kr)'
    BY <1>1, <1>2, <1>3 DEF EndsAt, TasksEndAt
  <1> QED BY <1>5, <1>6, <1>7 DEF EndsAt

LEMMA EndsNext ==
  ASSUME NEW c \in Channel, NEW w, NEW kw, NEW r, NEW kr, Known(c, w, kw, r, kr), Up',
         [TaskStep \/ UserStep]_allVars
  PROVE  EndsAt(c, w, kw, r, kr)'
  <1>1. /\ AreEnds(c, w, kw, r, kr) /\ TypeOK /\ OpenedOnce /\ OrderedQueues /\ UpInv /\ Up
        /\ ChannelTypes
    BY DEF Known, HeldInv
  <1>2. r \in Side /\ kr \in Key
    BY <1>1, EndsOfStream
  <1>3. [Next]_vars /\ scene' = scene
    BY StepsOfWired, SceneStays
  <1>4. Gone(r, kr) => Gone(r, kr)'
    BY <1>1, <1>2, <1>3, GoneGate
  <1>5. arr[r][kr] # <<>> => arr'[r][kr] # <<>>
    BY <1>1, <1>2, <1>3, DeliveredStays
  <1>6. CASE ChannelStill(c) /\ HalvesStill(c)
    BY <1>3, <1>4, <1>5, <1>6, EndsStill
  <1>7. CASE OwnStep(c)
    <2>1. CASE ChannelTask(c)
      BY <1>3, <1>4, <2>1, EndsWriterTakes, EndsWriterFails, EndsWriterFlushed, EndsWriterDone,
         EndsWriterWatch, EndsReaderTakes, EndsReaderEnds, EndsReaderWatch, EndsReaderClosed,
         EndsLetGo DEF ChannelTask
    <2>2. CASE Accept(c) \/ DropTx(c) \/ DropRx(c)
      BY <1>3, <1>4, <2>2, EndsApps
    <2> QED BY <1>7, <2>1, <2>2 DEF OwnStep
  <1> QED BY <1>1, <1>6, <1>7, WhoseStep

-----------------------------------------------------------------------------
(* The event that brings the channel to the peer.                           *)

\* No event frame stands ahead of the frame that opens stream 1.
OpenFirst(q) == \A i, j \in DOMAIN q : q[i] = OpenFrame(1) /\ q[j] = EventFrame => i < j

\* An event with one channel in it is queued until its stream has been opened, which comes
\* before the rest of the event is written; so the peer has the stream when it has the event.
EventPath(c) ==
  /\ evSent[c] = 1 =>
       Queued(wq[c], Event(0)) \/ Queued(wq[c], Event(1)) \/ nextId[c] = 1
  /\ Queued(wq[c], Event(0)) \/ Queued(net[c], EventFrame) \/ evHandled[Peer(c)] > 0 =>
       nextId[c] = 1
  /\ evHandled[Peer(c)] > 0 => ~Queued(net[c], OpenFrame(1))
  /\ OpenFirst(net[c])

LEMMA OpenFirstAppend ==
  ASSUME NEW q \in Seq(WiringEvent), NEW e \in WiringEvent, e # OpenFrame(1), OpenFirst(q)
  PROVE  OpenFirst(Append(q, e))
  <1> SUFFICES ASSUME NEW i \in DOMAIN Append(q, e), NEW j \in DOMAIN Append(q, e),
                      Append(q, e)[i] = OpenFrame(1), Append(q, e)[j] = EventFrame
               PROVE  i < j
    BY DEF OpenFirst
  <1>1. i \in 1..Len(q) /\ q[i] = OpenFrame(1)
    OBVIOUS
  <1>2. CASE j = Len(q) + 1
    BY <1>1, <1>2
  <1>3. CASE j # Len(q) + 1
    <2>1. j \in 1..Len(q) /\ q[j] = EventFrame
      BY <1>3
    <2> QED BY <1>1, <2>1 DEF OpenFirst
  <1> QED BY <1>2, <1>3

LEMMA OpenFirstTail ==
  ASSUME NEW q \in Seq(WiringEvent), q # <<>>, OpenFirst(q)
  PROVE  /\ OpenFirst(Tail(q))
         /\ Head(q) = EventFrame => ~Queued(q, OpenFrame(1))
  <1>1. OpenFirst(Tail(q))
    <2> SUFFICES ASSUME NEW i \in DOMAIN Tail(q), NEW j \in DOMAIN Tail(q),
                        Tail(q)[i] = OpenFrame(1), Tail(q)[j] = EventFrame
                 PROVE  i < j
      BY DEF OpenFirst
    <2>1. i + 1 \in DOMAIN q /\ j + 1 \in DOMAIN q /\ q[i + 1] = OpenFrame(1) /\ q[j + 1] = EventFrame
      OBVIOUS
    <2>2. i + 1 < j + 1
      BY <2>1 DEF OpenFirst
    <2> QED BY <2>2
  <1>2. ASSUME Head(q) = EventFrame, NEW i \in DOMAIN q, q[i] = OpenFrame(1)
        PROVE  FALSE
    <2>1. 1 \in DOMAIN q /\ q[1] = EventFrame
      BY <1>2
    <2>2. i < 1
      BY <1>2, <2>1 DEF OpenFirst
    <2> QED BY <1>2, <2>2
  <1> QED BY <1>1, <1>2 DEF Queued

LEMMA EventStill ==
  ASSUME NEW c \in Side, EventPath(c),
         evSent'[c] = evSent[c], evHandled'[Peer(c)] = evHandled[Peer(c)], nextId'[c] = nextId[c],
         Queued(wq'[c], Event(0)) <=> Queued(wq[c], Event(0)),
         Queued(wq'[c], Event(1)) <=> Queued(wq[c], Event(1)),
         Queued(net'[c], EventFrame) => Queued(net[c], EventFrame),
         Queued(net'[c], OpenFrame(1)) => Queued(net[c], OpenFrame(1)), OpenFirst(net'[c])
  PROVE  EventPath(c)'
  BY DEF EventPath

\* The W queue keeps its events when another entry comes or goes.
LEMMA EventsStay ==
  ASSUME TypeOK, UpInv, Up, NEW s \in Side, NEW c \in Side, NEW n,
         \/ wq' = wq
         \/ \E e \in WiredEvent : e.t # "event" /\ PushW(s, e)
         \/ wq[s] # <<>> /\ PopW(s) /\ Head(wq[s]).t # "event"
  PROVE  Queued(wq'[c], Event(n)) <=> Queued(wq[c], Event(n))
  <1>1. ASSUME NEW e \in WiredEvent, e.t # "event", PushW(s, e)
        PROVE  Queued(wq'[c], Event(n)) <=> Queued(wq[c], Event(n))
    <2>1. e # Event(n) /\ wstate[s] = "open"
      BY <1>1 DEF Event, UpInv, UpSide
    <2> QED BY <1>1, <2>1, PushWHolds
  <1>2. ASSUME wq[s] # <<>>, PopW(s), Head(wq[s]).t # "event"
        PROVE  Queued(wq'[c], Event(n)) <=> Queued(wq[c], Event(n))
    <2>1. Head(wq[s]) # Event(n)
      BY <1>2 DEF Event
    <2> QED BY <1>2, <2>1, PopWHolds
  <1> QED BY <1>1, <1>2

\* So does the transport, when a frame that is neither an event nor opens a stream is written,
\* or any is read.
FramesStay(c) ==
  /\ Queued(net'[c], EventFrame) => Queued(net[c], EventFrame)
  /\ Queued(net'[c], OpenFrame(1)) => Queued(net[c], OpenFrame(1))
  /\ OpenFirst(net'[c])
LEMMA FramesStill ==
  ASSUME TypeOK, NEW s \in Side, NEW c \in Side, OpenFirst(net[c]),
         \/ net' = net
         \/ \E e \in WiringEvent : e.t \notin {"event", "open"} /\ net' = [net EXCEPT ![s] = Append(@, e)]
         \/ \E t : Reading(s, t)
  PROVE  FramesStay(c)
  <1>1. net \in [Side -> Seq(WiringEvent)] /\ net[c] \in Seq(WiringEvent) /\ Peer(s) \in Side
    BY PeerSide DEF TypeOK
  <1>2. ASSUME NEW e \in WiringEvent, e.t \notin {"event", "open"},
               net' = [net EXCEPT ![s] = Append(@, e)]
        PROVE  FramesStay(c)
    <2>1. e # EventFrame /\ e # OpenFrame(1)
      BY <1>2 DEF EventFrame, OpenFrame
    <2>2. net'[c] = net[c] \/ net'[c] = Append(net[c], e)
      BY <1>1, <1>2
    <2>3. OpenFirst(net'[c])
      BY <1>1, <2>1, <2>2, OpenFirstAppend
    <2>4. ASSUME NEW f, f # e PROVE Queued(net'[c], f) => Queued(net[c], f)
      BY <1>2, <2>4, SendHolds
    <2>5. /\ Queued(net'[c], EventFrame) => Queued(net[c], EventFrame)
          /\ Queued(net'[c], OpenFrame(1)) => Queued(net[c], OpenFrame(1))
      BY <2>1, <2>4
    <2> QED BY <2>3, <2>5 DEF FramesStay
  <1>3. ASSUME NEW t, Reading(s, t)
        PROVE  FramesStay(c)
    <2>1. net[Peer(s)] # <<>> /\ net' = [net EXCEPT ![Peer(s)] = Tail(@)]
      BY <1>3 DEF Reading
    <2>2. net'[c] = net[c] \/ (net[c] # <<>> /\ net'[c] = Tail(net[c]))
      BY <1>1, <2>1
    <2>3. OpenFirst(net'[c])
      BY <1>1, <2>2, OpenFirstTail
    <2>4. \A f : Queued(net'[c], f) => Queued(net[c], f)
      BY <1>3, ReadHolds
    <2> QED BY <2>3, <2>4 DEF FramesStay
  <1> QED BY <1>2, <1>3 DEF FramesStay

LEMMA EventKept ==
  ASSUME NEW c \in Side, EventPath(c), FramesStay(c),
         \A n : Queued(wq'[c], Event(n)) <=> Queued(wq[c], Event(n)),
         evSent'[c] = evSent[c], evHandled'[Peer(c)] = evHandled[Peer(c)], nextId'[c] = nextId[c]
  PROVE  EventPath(c)'
  BY EventStill DEF FramesStay

\* connect() opens the stream, before the rest of the event is written.
LEMMA EventConnect ==
  ASSUME TypeOK, UpInv, Up, NEW c \in Side, EventPath(c), NEW s \in Side, WiredConnect(s)
  PROVE  EventPath(c)'
  <1>1. /\ wq \in [Side -> Seq(WiredEvent)] /\ net \in [Side -> Seq(WiringEvent)]
        /\ nextId \in [Side -> 0..1]
    BY OneOfEach DEF TypeOK
  <1>2. /\ nextId[s] = 0 /\ nextId' = [nextId EXCEPT ![s] = 1]
        /\ net' = [net EXCEPT ![s] = Append(@, OpenFrame(1))]
        /\ wq' = [wq EXCEPT ![s][1].chans = @ - 1]
        /\ UNCHANGED <<evSent, evHandled>>
    <2>1. nextId[s] < 1 /\ nextId[s] \in 0..1
      BY <1>1, OneOfEach DEF WiredConnect
    <2>2. nextId[s] = 0
      BY <2>1
    <2> QED BY <2>2, UpWrites DEF WiredConnect, Connected
  <1>3. CASE s # c
    <2>1. nextId'[c] = nextId[c] /\ net'[c] = net[c] /\ wq'[c] = wq[c]
      BY <1>1, <1>2, <1>3
    <2> QED BY <1>2, <2>1 DEF EventPath
  <1>4. CASE s = c
    <2>1. nextId'[c] = 1
      BY <1>1, <1>2, <1>4
    <2>2. ~Queued(net[c], EventFrame) /\ ~(evHandled[Peer(c)] > 0)
      BY <1>2, <1>4 DEF EventPath
    <2>3. OpenFrame(1) \in WiringEvent /\ OpenFrame(1) # EventFrame
      BY OneOfEach, EventTypes DEF WireId, OpenFrame, EventFrame
    <2>4. ~Queued(net'[c], EventFrame)
      <3>1. ASSUME NEW f PROVE Queued(net'[c], f) => Queued(net[c], f) \/ f = OpenFrame(1)
        BY <1>2, <2>3, SendHolds
      <3> QED BY <2>2, <2>3, <3>1
    <2>5. OpenFirst(net'[c])
      BY <2>4 DEF OpenFirst, Queued
    <2> QED BY <1>2, <2>1, <2>2, <2>5 DEF EventPath
  <1> QED BY <1>3, <1>4

\* The rest of the event is written: its channel has been opened.
LEMMA EventWritten ==
  ASSUME TypeOK, UpInv, Up, NEW c \in Side, EventPath(c), NEW s \in Side, WiredEventDone(s)
  PROVE  EventPath(c)'
  <1>1. /\ wq \in [Side -> Seq(WiredEvent)] /\ net \in [Side -> Seq(WiringEvent)]
    BY DEF TypeOK
  <1>2. /\ WiredAt(s, "event") /\ Head(wq[s]).chans = 0 /\ PopW(s)
        /\ net' = [net EXCEPT ![s] = Append(@, EventFrame)]
        /\ UNCHANGED <<nextId, evSent, evHandled>>
    BY UpWrites DEF WiredEventDone
  <1>3. CASE s # c
    <2>1. net'[c] = net[c] /\ wq'[c] = wq[c]
      BY <1>1, <1>2, <1>3 DEF PopW
    <2> QED BY <1>2, <2>1 DEF EventPath
  <1>4. CASE s = c
    <2>1. Head(wq[c]) = Event(0) /\ wq[c] # <<>>
      <3>1. wq[c] # <<>> /\ Head(wq[c]) \in WiredEvent /\ Head(wq[c]).t = "event"
        BY <1>2, <1>4, HeadW
      <3>2. Head(wq[c]) \in [t : {"event"}, chans : 0..MaxChans]
        BY <3>1 DEF WiredEvent, None
      <3> QED BY <1>2, <1>4, <3>1, <3>2 DEF Event
    <2>2. Queued(wq[c], Event(0))
      BY <1>1, <2>1, HeadQueued
    <2>3. nextId'[c] = 1
      BY <1>2, <2>2 DEF EventPath
    <2>4. EventFrame \in WiringEvent /\ EventFrame # OpenFrame(1)
      BY EventTypes DEF OpenFrame, EventFrame
    <2>5. OpenFirst(net'[c])
      BY <1>1, <1>2, <1>4, <2>4, OpenFirstAppend DEF EventPath
    <2>6. Queued(net'[c], OpenFrame(1)) => Queued(net[c], OpenFrame(1))
      <3>1. ASSUME NEW f, f # EventFrame PROVE Queued(net'[c], f) => Queued(net[c], f)
        BY <1>2, <2>4, <3>1, SendHolds
      <3> QED BY <2>4, <3>1
    <2> QED BY <1>2, <2>3, <2>5, <2>6 DEF EventPath
  <1> QED BY <1>3, <1>4

\* The peer takes the event off the transport: the frame that opens the stream was ahead.
LEMMA EventRead ==
  ASSUME TypeOK, UpInv, Up, NEW c \in Side, EventPath(c), NEW s \in Side, ReadEvent(s)
  PROVE  EventPath(c)'
  <1>1. /\ Reading(s, "event") /\ evHandled' = [evHandled EXCEPT ![s] = @ + 1]
        /\ UNCHANGED <<wq, nextId, evSent>>
    BY DEF ReadEvent, wiredVars
  <1>2. FramesStay(c)
    BY <1>1, FramesStill DEF EventPath
  <1>3. Peer(s) \in Side /\ Peer(c) \in Side /\ Peer(Peer(c)) = c
    BY PeerSide
  <1>4. CASE s # Peer(c)
    <2>1. evHandled'[Peer(c)] = evHandled[Peer(c)]
      BY <1>1, <1>3, <1>4 DEF TypeOK
    <2> QED BY <1>1, <1>2, <2>1, EventKept
  <1>5. CASE s = Peer(c)
    <2>1. net[c] \in Seq(WiringEvent) /\ net[c] # <<>> /\ Head(net[c]) = EventFrame
      <3>1. net[c] # <<>> /\ Head(net[c]) \in WiringEvent /\ Head(net[c]).t = "event"
        BY <1>1, <1>3, <1>5, HeadNet
      <3> QED BY <3>1 DEF TypeOK, WiringEvent, EventFrame
    <2>2. Queued(net[c], EventFrame) /\ ~Queued(net[c], OpenFrame(1))
      BY <2>1, HeadQueued, OpenFirstTail DEF EventPath
    <2> QED BY <1>1, <1>2, <2>2 DEF EventPath, FramesStay
  <1> QED BY <1>4, <1>5

LEMMA EventNext ==
  ASSUME TypeOK, OpenedOnce, UpInv, Up, Up', [Next]_vars, NEW c \in Side, EventPath(c),
         evSent'[c] = evSent[c] \/ Send(c, 1)
  PROVE  EventPath(c)'
  <1> USE DEF wiredVars, helperVars, netVars, halfVars
  <1>1. OpenFirst(net[c])
    BY DEF EventPath
  <1>2. CASE UNCHANGED vars
    BY <1>2 DEF vars, EventPath
  <1>3. ASSUME NEW s \in Side, WiredRegister(s) \/ WiredMessage(s) \/ WiredDrop(s)
        PROVE  EventPath(c)'
    <2>1. UNCHANGED <<nextId, evSent, evHandled>> /\ PopW(s)
      BY <1>3 DEF WiredRegister, WiredMessage, WiredDrop
    <2>2. wq[s] # <<>> /\ Head(wq[s]).t # "event"
      BY <1>3 DEF WiredRegister, WiredMessage, WiredDrop, WiredAt
    <2>3. \A n : Queued(wq'[c], Event(n)) <=> Queued(wq[c], Event(n))
      BY <2>1, <2>2, EventsStay
    <2>4. net' = net \/ \E e \in WiringEvent : e.t \notin {"event", "open"} /\ Write(s, e)
      <3>1. CASE WiredRegister(s)
        BY <3>1 DEF WiredRegister
      <3>2. CASE WiredMessage(s)
        <4>1. \A k, n : Data(k, n).t = "data"
          BY Kinds2
        <4>2. net' = net \/ \E k, n : Data(k, n) \in WiringEvent /\ Write(s, Data(k, n))
          BY <3>2, MessageWrites
        <4> QED BY <4>1, <4>2
      <3>3. CASE WiredDrop(s)
        <4>1. \A k \in Key : DropFrame(Mirror(k)) \in WiringEvent /\ DropFrame(Mirror(k)).t = "drop"
          BY MirrorKey, EventTypes, Kinds2
        <4>2. net' = net \/ \E k \in Key : Write(s, DropFrame(Mirror(k)))
          BY <3>3, DropWrites
        <4> QED BY <4>1, <4>2
      <3> QED BY <1>3, <3>1, <3>2, <3>3
    <2>5. \/ net' = net
          \/ \E e \in WiringEvent : e.t \notin {"event", "open"} /\ net' = [net EXCEPT ![s] = Append(@, e)]
      BY <2>4, UpWrites
    <2>6. FramesStay(c)
      BY <1>1, <2>5, FramesStill
    <2> QED BY <2>1, <2>3, <2>6, EventKept
  <1>4. ASSUME NEW s \in Side, ReadOpen(s) \/ ReadMessage(s) \/ ReadDrop(s)
        PROVE  EventPath(c)'
    <2>1. UNCHANGED <<nextId, evSent, evHandled>> /\ \E t : Reading(s, t)
      BY <1>4 DEF ReadOpen, ReadMessage, ReadDrop
    <2>2. wq' = wq \/ \E e \in WiredEvent : e.t # "event" /\ PushW(s, e)
      <3>1. CASE ReadOpen(s)
        <4>1. \A id \in WireId : Register(Remote(id)) \in WiredEvent /\ Register(Remote(id)).t = "register"
          BY EventTypes, Kinds2
        <4> QED BY <3>1, <4>1, ReadsId
      <3> QED BY <1>4, <3>1 DEF ReadMessage, ReadDrop
    <2>3. \A n : Queued(wq'[c], Event(n)) <=> Queued(wq[c], Event(n))
      BY <2>2, EventsStay
    <2>4. FramesStay(c)
      BY <1>1, <2>1, FramesStill
    <2> QED BY <2>1, <2>3, <2>4, EventKept
  <1>5. ASSUME NEW s \in Side, HelperMessage(s) \/ HelperRegister(s) \/ HelperDrop(s)
        PROVE  EventPath(c)'
    <2>1. UNCHANGED <<nextId, evSent, evHandled, net>>
      BY <1>5 DEF HelperMessage, HelperRegister, HelperDrop
    <2>2. wq' = wq \/ \E e \in WiredEvent : e.t # "event" /\ PushW(s, e)
      <3>1. CASE HelperDrop(s)
        <4>1. HelperAt(s, "drop")
          BY <3>1 DEF HelperDrop
        <4>2. Head(uq[s]).k \in Key
          BY <4>1, HeadU
        <4>3. Drop(Head(uq[s]).k, FALSE) \in WiredEvent /\ Drop(Head(uq[s]).k, FALSE).t # "event"
          BY <4>2, EventTypes, Kinds2
        <4> QED BY <3>1, <4>3 DEF HelperDrop
      <3> QED BY <1>5, <3>1 DEF HelperMessage, HelperRegister
    <2>3. \A n : Queued(wq'[c], Event(n)) <=> Queued(wq[c], Event(n))
      BY <2>2, EventsStay
    <2>4. FramesStay(c)
      BY <1>1, <2>1, FramesStill
    <2> QED BY <2>1, <2>3, <2>4, EventKept
  <1>6. ASSUME NEW s \in Side, NEW n \in 0..MaxChans, Send(s, n)
        PROVE  EventPath(c)'
    <2>1. UNCHANGED <<nextId, evHandled, net>> /\ PushW(s, Event(n)) /\ Event(n) \in WiredEvent
          /\ evSent' = [evSent EXCEPT ![s] = @ + 1]
      BY <1>6, EventTypes DEF Send
    <2>2. wstate[s] = "open"
      BY DEF UpInv, UpSide
    <2>3. CASE s # c
      <3>1. evSent'[c] = evSent[c] /\ wq'[c] = wq[c]
        BY <2>1, <2>3 DEF TypeOK, PushW, Pushed
      <3> QED BY <2>1, <3>1 DEF EventPath
    <2>4. CASE s = c
      <3>1. evSent'[c] = evSent[c] + 1 /\ evSent[c] \in Nat
        BY <2>1, <2>4 DEF TypeOK
      <3>2. Send(c, 1)
        BY <3>1
      <3>3. PushW(c, Event(1)) /\ Event(1) \in WiredEvent /\ Event(0) # Event(1)
        BY <3>2, OneOfEach, EventTypes DEF Send, Event
      <3>4. Queued(wq'[c], Event(1)) /\ (Queued(wq'[c], Event(0)) => Queued(wq[c], Event(0)))
        BY <2>2, <2>4, <3>3, PushWHolds
      <3> QED BY <2>1, <3>4 DEF EventPath
    <2> QED BY <2>3, <2>4
  <1>7. ASSUME NEW s \in Side, NEW k \in Key, HalfStep(s, k)
        PROVE  EventPath(c)'
    <2>1. UNCHANGED <<nextId, evSent, evHandled, net>>
      BY <1>7 DEF HalfStep, FlushBegin, FlushEnd, ShutWrite, DropWrite, DropRead, PollRead, PollReadEof
    <2>2. wq' = wq \/ PushW(s, Message(k)) \/ PushW(s, Drop(k, TRUE))
      BY <1>7 DEF HalfStep, FlushBegin, FlushEnd, FlushSend, SendData, SendEvent, ShutWrite,
                  DropWrite, DropRead, PollRead, PollReadEof
    <2>3. /\ Message(k) \in WiredEvent /\ Message(k).t # "event"
          /\ Drop(k, TRUE) \in WiredEvent /\ Drop(k, TRUE).t # "event"
      BY EventTypes, Kinds2
    <2>4. \A n : Queued(wq'[c], Event(n)) <=> Queued(wq[c], Event(n))
      BY <2>2, <2>3, EventsStay
    <2>5. FramesStay(c)
      BY <1>1, <2>1, FramesStill
    <2> QED BY <2>1, <2>4, <2>5, EventKept
  <1> QED BY <1>2, <1>3, <1>4, <1>5, <1>6, <1>7, EventConnect, EventWritten, EventRead, UpSteps

\* The event of a channel has one channel in it.
LEMMA SendsOne ==
  ASSUME TypeOK, [TaskStep \/ UserStep]_allVars, NEW c \in Channel
  PROVE  evSent'[c] = evSent[c] \/ Send(c, 1)
  <1>1. ASSUME NEW d \in Channel, OwnStep(d)
        PROVE  evSent' = evSent
    <2>1. UNCHANGED vars \/ \E s \in Side, k \in Key : HalfStep(s, k)
      BY <1>1, TaskHalves, ChannelEnds, KeyAtType DEF OwnStep, Accept, DropTx, DropRx
    <2>2. ASSUME NEW s \in Side, NEW k \in Key, HalfStep(s, k)
          PROVE  evSent' = evSent
      BY <2>2 DEF HalfStep, FlushBegin, FlushEnd, ShutWrite, DropWrite, DropRead, PollRead,
                  PollReadEof
    <2> QED BY <2>1, <2>2 DEF vars
  <1>2. ASSUME NEW s \in Side, ConnectionTask(s)
        PROVE  evSent' = evSent
    BY <1>2 DEF ConnectionTask, WiredStep, ReaderStep, HelperStep, WiredNone, WiredConnect,
                WiredConnectFails, WiredEventFails, WiredEventDone, WiredRegister, WiredMessage,
                WiredDrop, WiredEnd, ReadOpen, ReadEvent, ReadMessage, ReadDrop, ReadEnd, ReadJoin,
                HelperMessage, HelperRegister, HelperDrop, HelperNone, HelperEnd
  <1>3. ASSUME NEW s \in Side, HeldFlushEnd(s) \/ HeldStep(s)
        PROVE  evSent' = evSent
    BY <1>3 DEF HeldFlushEnd, HeldStep, FlushBegin, FlushEnd, DropRead
  <1>4. ASSUME NEW s \in Side, HandleStep(s)
        PROVE  evSent'[c] = evSent[c] \/ Send(c, 1)
    <2>1. CASE Send(s, IF KindOf(s) = "none" THEN 0 ELSE 1)
      <3>1. CASE s = c
        <4>1. KindOf(c) # "none"
          BY DEF Channel
        <4> QED BY <2>1, <3>1, <4>1
      <3>2. CASE s # c
        BY <2>1, <3>2, ChannelEnds DEF Send, TypeOK
      <3> QED BY <3>1, <3>2
    <2>2. CASE SendNone(s) \/ Shutdown(s) \/ Abort(s) \/ AbandonShutdown(s) \/ Break
      BY <2>2 DEF SendNone, Shutdown, Abort, AbandonShutdown, Break
    <2> QED BY <1>4, <2>1, <2>2 DEF HandleStep
  <1>5. CASE UNCHANGED allVars
    BY <1>5 DEF allVars, vars
  <1> QED BY <1>1, <1>2, <1>3, <1>4, <1>5 DEF TaskStep, UserStep, OwnStep

-----------------------------------------------------------------------------
(* The types of what the channels keep.                                     *)

LEMMA ChannelTypesInit ==
  ASSUME InitChannels
  PROVE  ChannelTypes
  <1>1. <<>> \in Seq(Nat)
    OBVIOUS
  <1> QED BY <1>1 DEF InitChannels, ChannelTypes

LEMMA ChannelTypesNext ==
  ASSUME TypeOK, ChannelTypes, [TaskStep \/ UserStep]_allVars
  PROVE  ChannelTypes'
  <1>1. UNCHANGED chanVars => ChannelTypes'
    BY DEF chanVars, ChannelTypes
  <1>2. ASSUME NEW c \in Channel, NEW tasks \in SUBSET Task, Ends(c, tasks)
        PROVE  over' \in [Side -> SUBSET Task]
    BY <1>2 DEF Ends, ChannelTypes
  <1>3. ASSUME NEW c \in Channel, ReaderTakes(c)
        PROVE  ChannelTypes'
    <2> DEFINE s == ReaderSide(c)
               k == RKey(c)
               v == Head(arr[s][k])
    <2>1. /\ arr[s][k] # <<>> /\ UNCHANGED <<sent, txGone, rxGone>>
          /\ got' = got \/ got' = [got EXCEPT ![c] = Append(@, v)]
          /\ over' = over \/ Ends(c, ReaderTasks(c))
      BY <1>3 DEF ReaderTakes, PollRead, SameApps, RKey
    <2>2. arr[s][k] \in Seq(Nat \ {0})
      BY ChannelEnds DEF TypeOK
    <2>3. v \in Nat
      BY <2>1, <2>2
    <2> HIDE DEF v
    <2>4. got[c] \in Seq(Nat) /\ Append(got[c], v) \in Seq(Nat)
      BY <2>3, ChannelEnds DEF ChannelTypes
    <2>5. got' \in [Side -> Seq(Nat)]
      BY <2>1, <2>4 DEF ChannelTypes
    <2>6. ReaderTasks(c) \subseteq Task
      BY DEF ReaderTasks, Task
    <2>7. over' \in [Side -> SUBSET Task]
      BY <1>2, <2>1, <2>6 DEF ChannelTypes
    <2> QED BY <2>1, <2>5, <2>7 DEF ChannelTypes
  <1>4. ASSUME NEW c \in Channel, ChannelTask(c), ~ReaderTakes(c)
        PROVE  ChannelTypes'
    <2>1. /\ UNCHANGED <<sent, txGone, rxGone, got>>
          /\ over' = over \/ \E tasks \in SUBSET Task : Ends(c, tasks)
      <3>1. ReaderTasks(c) \in SUBSET Task
        BY DEF ReaderTasks, Task
      <3>2. CASE WriterTakes(c) \/ WriterFails(c) \/ WriterFlushed(c) \/ WriterDone(c) \/ WriterWatch(c)
        BY <3>2 DEF WriterTakes, WriterFails, WriterFlushed, WriterDone, WriterWatch, SameApps, Task
      <3>3. CASE ReaderEnds(c)
        BY <3>1, <3>3 DEF ReaderEnds, SameApps
      <3>4. CASE ReaderWatch(c)
        <4>1. (IF KindOf(c) = "sender" THEN {"reader_watch"} ELSE {"reader", "reader_watch"}) \in SUBSET Task
          BY DEF Task
        <4> QED BY <3>4, <4>1 DEF ReaderWatch, SameApps
      <3>5. CASE ReaderClosed(c) \/ \E s \in Side : LetGo(c, s)
        BY <3>5 DEF ReaderClosed, LetGo, SameApps, chanVars, Task
      <3> QED BY <1>4, <3>2, <3>3, <3>4, <3>5 DEF ChannelTask
    <2>2. over' \in [Side -> SUBSET Task]
      BY <1>2, <2>1 DEF ChannelTypes
    <2> QED BY <2>1, <2>2 DEF ChannelTypes
  <1>5. ASSUME NEW c \in Channel, Accept(c) \/ DropTx(c) \/ DropRx(c)
        PROVE  ChannelTypes'
    <2>1. sent[c] \in Nat /\ sent[c] + 1 \in Nat
      BY ChannelEnds DEF ChannelTypes
    <2>2. sent' = sent \/ sent' = [sent EXCEPT ![c] = sent[c] + 1]
      BY <1>5 DEF Accept, DropTx, DropRx
    <2>3. sent' \in [Side -> Nat]
      BY <2>1, <2>2 DEF ChannelTypes
    <2>4. /\ txGone' \in [Side -> BOOLEAN] /\ rxGone' \in [Side -> BOOLEAN]
          /\ got' = got /\ over' = over
      BY <1>5 DEF Accept, DropTx, DropRx, ChannelTypes
    <2> QED BY <2>3, <2>4 DEF ChannelTypes
  <1>6. CASE UNCHANGED allVars
    BY <1>1, <1>6 DEF allVars
  <1> QED BY <1>1, <1>3, <1>4, <1>5, <1>6
          DEF TaskStep, UserStep, ConnectionTask, HeldFlushEnd, HeldStep, HandleStep

-----------------------------------------------------------------------------
(* The first value arrives.                                                 *)

ChannelInv(c) ==
  LET w == WriterSide(c)
      r == ReaderSide(c)
  IN  EndsAt(c, w, WKey(c), r, RKey(c)) /\ WayKey(w, WKey(c)) /\ EventPath(c)
\* While nothing is torn down.
FirstInv == ChannelTypes /\ (Up => Placed /\ \A c \in Channel : ChannelInv(c))

LEMMA FirstInit ==
  ASSUME Init, InitChannels
  PROVE  FirstInv
  <1>1. ChannelTypes
    BY ChannelTypesInit
  <1>2. Placed
    BY PlacedInit
  <1>3. ASSUME NEW c \in Channel
        PROVE  ChannelInv(c)
    <2> DEFINE w == WriterSide(c)
               kw == WKey(c)
               r == ReaderSide(c)
               kr == RKey(c)
    <2>1. /\ c \in Side /\ w \in Side /\ r \in Side /\ kw \in Key /\ kr \in Key
          /\ Peer(c) \in Side
      BY ChannelEnds, PeerSide
    <2>2. /\ flushed[w][kw] = 0 /\ cur[w][kw] = 0 /\ cur[r][kr] = 0
          /\ wh[w][kw] = "none" /\ rh[w][kw] = "none" /\ wh[r][kr] = "none" /\ rh[r][kr] = "none"
          /\ evSent[c] = 0 /\ evHandled[Peer(c)] = 0 /\ wq[c] = <<>> /\ net[c] = <<>>
      BY <2>1 DEF Init, PerKey
    <2>3. sent[c] = 0 /\ got[c] = <<>> /\ over[c] = {}
      BY <2>1 DEF InitChannels
    <2>4. ValuesAt(c, w, kw, r, kr)
      BY <2>2, <2>3 DEF ValuesAt
    <2>5. HalvesHeldAt(c, w, kw, r, kr)
      BY <2>2 DEF HalvesHeldAt
    <2>6. TasksEndAt(c, w, kw, r, kr)
      BY <2>2, <2>3 DEF TasksEndAt
    <2>7. WayKey(w, kw)
      BY <2>2 DEF WayKey, Gone
    <2>8. EventPath(c)
      BY <2>2 DEF EventPath, Queued, OpenFirst
    <2> QED BY <2>4, <2>5, <2>6, <2>7, <2>8 DEF ChannelInv, EndsAt
  <1> QED BY <1>1, <1>2, <1>3 DEF FirstInv

\* A writer between the two sends of a flush holds its halves.
LEMMA WriterSettled ==
  ASSUME NEW c \in Channel, NEW w, NEW kw, NEW r, NEW kr, AreEnds(c, w, kw, r, kr),
         EndsAt(c, w, kw, r, kr)
  PROVE  Settled(w, kw)
  BY EndsOfStream, WhoReleases DEF EndsAt, HalvesHeldAt, TasksEndAt, Gone, Settled

LEMMA ChannelNext ==
  ASSUME HeldInv, TypeOK', FirstInv, Up, Up', [TaskStep \/ UserStep]_allVars, NEW c \in Channel
  PROVE  ChannelInv(c)'
  <1>1. c \in Side /\ Placed /\ ChannelTypes /\ ChannelInv(c)
    BY ChannelEnds DEF FirstInv
  <1>2. /\ TypeOK /\ OpenedOnce /\ OrderedQueues /\ UpInv /\ [Next]_vars /\ scene' = scene
    BY StepsOfWired, SceneStays DEF HeldInv
  <1>3. PICK w \in Side, kw \in Key, r \in Side, kr \in Key : AreEnds(c, w, kw, r, kr)
    BY ChannelEnds DEF AreEnds
  <1>4. EndsAt(c, w, kw, r, kr) /\ WayKey(w, kw) /\ EventPath(c)
    BY <1>1, <1>3 DEF ChannelInv, AreEnds
  <1>5. Known(c, w, kw, r, kr)
    BY <1>1, <1>3, <1>4 DEF Known
  <1>6. EndsAt(c, w, kw, r, kr)'
    BY <1>5, EndsNext
  <1>7. Settled(w, kw)
    BY <1>3, <1>4, WriterSettled
  <1>8. Settled(w, kw)'
    <2>1. Peer(w) = r /\ Mirror(kw) = kr
      BY <1>3, EndsOfStream
    <2>2. Gone(w, kw)' => Released(c, w, "write")' \/ Released(c, w, "read")'
      BY <1>6 DEF EndsAt, HalvesHeldAt, Gone
    <2>3. \A h : Released(c, w, h)' => {"writer", "writer_watch"} \cap over'[c] # {}
      BY <1>2, <1>3, ChannelFixed DEF Released, AreEnds
    <2> QED BY <1>6, <2>1, <2>2, <2>3 DEF EndsAt, TasksEndAt, Settled
  <1>9. WayKey(w, kw)'
    BY <1>1, <1>2, <1>4, <1>7, <1>8, WayNext
  <1>10. EventPath(c)'
    BY <1>1, <1>2, <1>4, SendsOne, EventNext
  <1>11. /\ WriterSide(c)' = w /\ WKey(c)' = kw /\ ReaderSide(c)' = r /\ RKey(c)' = kr
    BY <1>2, <1>3, ChannelFixed DEF AreEnds
  <1> QED BY <1>6, <1>9, <1>10, <1>11 DEF ChannelInv

LEMMA FirstNext ==
  ASSUME HeldInv, HeldInv', FirstInv, [TaskStep \/ UserStep]_allVars
  PROVE  FirstInv'
  <1>1. TypeOK /\ TypeOK' /\ OpenedOnce /\ OrderedQueues /\ UpInv /\ [Next]_vars
    BY StepsOfWired DEF HeldInv
  <1>2. ChannelTypes'
    BY <1>1, ChannelTypesNext DEF FirstInv
  <1>3. ASSUME Up'
        PROVE  Placed' /\ \A c \in Channel' : ChannelInv(c)'
    <2>1. Up /\ Placed
      BY <1>1, <1>3, UpGate DEF FirstInv
    <2>2. Placed'
      BY <1>1, <1>3, <2>1, PlacedNext
    <2>3. Channel' = Channel
      BY SceneStays, ChannelFixed
    <2>4. ASSUME NEW c \in Channel
          PROVE  ChannelInv(c)'
      BY <1>1, <1>3, <2>1, <2>4, ChannelNext
    <2> QED BY <2>2, <2>3, <2>4
  <1> QED BY <1>2, <1>3 DEF FirstInv

\* The reader is over, or its half has not been made yet and the event still carries it.
LEMMA FirstFollows ==
  ASSUME HeldInv, FirstInv
  PROVE  FirstArrives
  <1> SUFFICES ASSUME Up, NEW c \in Channel
               PROVE  /\ Len(got[c]) <= sent[c] /\ (got[c] # <<>> => got[c][1] = 1)
                      /\ sent[c] > 0 /\ RxHeld(c) /\ InHand(c, ReaderSide(c)) /\ ~Fed(c) => got[c] # <<>>
    BY DEF FirstArrives
  <1>1. PICK w \in Side, kw \in Key, r \in Side, kr \in Key : AreEnds(c, w, kw, r, kr)
    BY ChannelEnds DEF AreEnds
  <1>2. EndsAt(c, w, kw, r, kr) /\ WayKey(w, kw) /\ EventPath(c) /\ Placed /\ ChannelTypes
    BY <1>1 DEF FirstInv, ChannelInv, AreEnds
  <1>3. /\ c \in Side /\ Peer(w) = r /\ Peer(r) = w /\ Mirror(kr) = kw /\ Peer(Peer(c)) = c
        /\ KeyAt(c, r) = kr /\ KeyAt(c, w) = kw
    BY <1>1, EndsOfStream, PeerSide
  <1>4. TypeOK /\ UpInv /\ OpenedOnce /\ OrderedQueues
    BY DEF HeldInv
  <1>5. flushed[w][kw] \in Nat /\ sent[c] \in Nat
    BY <1>1, <1>2, <1>4, KnownTypes
  <1>6. Len(got[c]) <= sent[c] /\ (got[c] # <<>> => got[c][1] = 1)
    <2>1. CASE got[c] = <<>>
      BY <1>5, <2>1
    <2>2. CASE got[c] = <<1>> /\ cur[r][kr] = 1
      <3>1. arr[r][kr] # <<>>
        BY <1>2, <2>2 DEF EndsAt, ValuesAt
      <3>2. flushed[w][kw] > 0
        BY <1>3, <3>1, FirstIsOne
      <3>3. flushed[w][kw] <= sent[c]
        BY <1>2 DEF EndsAt, ValuesAt
      <3>4. Len(got[c]) = 1 /\ got[c][1] = 1
        BY <2>2
      <3> QED BY <1>5, <3>2, <3>3, <3>4
    <2> QED BY <1>2, <2>1, <2>2 DEF EndsAt, ValuesAt
  <1>7. ASSUME sent[c] > 0, RxHeld(c), InHand(c, ReaderSide(c)), ~Fed(c)
        PROVE  got[c] # <<>>
    <2>1. ~rxGone[c]
      BY <1>4, <1>7, AppsHold
    <2>2. "reader" \in over[c] => got[c] # <<>>
      BY <1>2, <1>5, <1>7, <2>1 DEF EndsAt, TasksEndAt
    <2>3. "reader" \in over[c] \/ rh[r][kr] \in {"none", "dropped"}
      <3>1. SideOf(c, "reader") = r /\ HalfOf(c, "reader") = rh[r][kr]
        BY <1>1, <1>3 DEF SideOf, HalfOf, AreEnds
      <3> QED BY <1>7, <3>1 DEF Fed, Runs, TasksOf, Task
    <2>4. rh[r][kr] = "dropped" => "reader" \in over[c]
      BY <1>1, <1>2, WhoReleases DEF EndsAt, HalvesHeldAt
    <2>5. rh[r][kr] # "none"
      <3> SUFFICES ASSUME rh[r][kr] = "none" PROVE FALSE
        OBVIOUS
      <3>1. ~Opened(r, kr)
        BY <1>2 DEF Placed
      <3>2. CASE r = c
        <4>1. kr = Local(1) /\ KindOf(c) \in ToOpener
          BY <1>1, <1>3, <3>2, SidesAssumption DEF KeyAt, AreEnds, ReaderSide, WriterSide, Peer, Side
        <4>2. nextId[c] # 1
          BY <3>1, <3>2, <4>1 DEF Opened, Local
        <4>3. Queued(wq[c], Event(0)) \/ Queued(wq[c], Event(1))
          BY <1>1, <1>2, <1>7, <3>2, <4>2 DEF InHand, EventPath, AreEnds
        <4>4. wh[c][Local(1)] = "none"
          BY <1>4, <3>1, <3>2, <4>1, KnownOpened
        <4>5. InEvent(c)
          BY <4>3, <4>4 DEF InEvent, Queued, Event
        <4> QED BY <1>7, <4>1, <4>5 DEF Fed
      <3>3. CASE r # c
        <4>1. kr = Remote(1) /\ Peer(r) = c /\ r = Peer(c)
          BY <1>3, <3>3 DEF KeyAt, Peer, Side
        <4>2. evHandled[Peer(c)] > 0
          BY <1>1, <1>7, <3>3, <4>1 DEF InHand, AreEnds
        <4>3. nextId[c] = 1 /\ ~Queued(net[c], OpenFrame(1))
          BY <1>2, <4>2 DEF EventPath
        <4> QED BY <3>1, <4>1, <4>3 DEF Opened, Remote
      <3> QED BY <3>2, <3>3
    <2> QED BY <2>2, <2>3, <2>4, <2>5
  <1> QED BY <1>6, <1>7

\* While the connection is up, the receiver of a channel that runs over a wired stream does
\* not see the end before the first value that was accepted, whatever the tasks of the four
\* Wiring and Unwiring impls, of the multiplexer and of the applications do, in any order: for
\* every kind of channel on either side and any number of values.
THEOREM FirstArrivesAlways == SpecAll => []FirstArrives
  <1>1. Init /\ InitChannels => FirstInv
    BY FirstInit
  <1>2. HeldInv /\ HeldInv' /\ FirstInv /\ [TaskStep \/ UserStep]_allVars => FirstInv'
    BY FirstNext
  <1>3. HeldInv /\ FirstInv => FirstArrives
    BY FirstFollows
  <1>4. Spec => []HeldInv
    BY TypeCorrect, StreamsOpenedOnce, QueuesOrdered, MessagesAnnounced, MessagesOnPath, TornHolds,
       PTL DEF HeldInv
  <1>5. SpecAll => Spec
    BY ChannelsRunOnWired
  <1> QED BY <1>1, <1>2, <1>3, <1>4, <1>5, PTL DEF SpecAll

=============================================================================
