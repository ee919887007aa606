-------------------------- MODULE WiredQueueProofs --------------------------
(* Proofs that every queue of Wired holds the registration of a stream ahead *)
(* of its messages and drops.                                                *)
EXTENDS WiredProofs

-----------------------------------------------------------------------------
(* The order of the entries of a queue.                                     *)

\* Entry e is about stream k.
About(e, k) == e.t \in {"register", "message", "data", "drop"} /\ e.k = k
Mentions(q, k) == \E i \in DOMAIN q : About(q[i], k)

\* e stands ahead of all that q holds about k.
Leads(q, e, k) == \A i, j \in DOMAIN q : q[j] = e /\ i # j /\ About(q[i], k) => j < i

\* From q to r nothing about k is added, and nothing comes to stand ahead of e.
Calm(q, r, e, k) ==
  /\ Leads(q, e, k) => Leads(r, e, k)
  /\ Mentions(r, k) => Mentions(q, k)

LEMMA CalmSame == ASSUME NEW q, NEW e, NEW k PROVE Calm(q, q, e, k)
  BY DEF Calm

LEMMA CalmEmpty == ASSUME NEW q, NEW e, NEW k PROVE Calm(q, <<>>, e, k)
  BY DEF Calm, Leads, Mentions

LEMMA CalmTail ==
  ASSUME NEW S, NEW q \in Seq(S), q # <<>>, NEW e, NEW k
  PROVE  /\ Calm(q, Tail(q), e, k)
         /\ About(Head(q), k) => Mentions(q, k)
         /\ About(Head(q), k) /\ Leads(q, e, k) => ~Queued(Tail(q), e)
  <1>1. /\ DOMAIN q = 1..Len(q) /\ Len(q) \in Nat \ {0}
        /\ Head(q) = q[1] /\ 1 \in DOMAIN q
    OBVIOUS
  <1>2. ASSUME NEW i \in DOMAIN Tail(q)
        PROVE  i + 1 \in DOMAIN q /\ Tail(q)[i] = q[i + 1] /\ i \in Nat /\ i >= 1
    OBVIOUS
  <1>3. Mentions(Tail(q), k) => Mentions(q, k)
    BY <1>2 DEF Mentions
  <1>4. ASSUME Leads(q, e, k) PROVE Leads(Tail(q), e, k)
    <2> SUFFICES ASSUME NEW i \in DOMAIN Tail(q), NEW j \in DOMAIN Tail(q),
                        Tail(q)[j] = e, i # j, About(Tail(q)[i], k)
                 PROVE  j < i
      BY DEF Leads
    <2>1. /\ i + 1 \in DOMAIN q /\ Tail(q)[i] = q[i + 1] /\ i \in Nat
          /\ j + 1 \in DOMAIN q /\ Tail(q)[j] = q[j + 1] /\ j \in Nat
      BY <1>2
    <2>2. i + 1 # j + 1
      BY <2>1
    <2>3. j + 1 < i + 1
      BY <1>4, <2>1, <2>2 DEF Leads
    <2> QED BY <2>1, <2>3
  <1>5. About(Head(q), k) => Mentions(q, k)
    BY <1>1 DEF Mentions
  <1>6. ASSUME About(Head(q), k), Leads(q, e, k), Queued(Tail(q), e) PROVE FALSE
    <2>1. PICK j \in DOMAIN Tail(q) : Tail(q)[j] = e
      BY <1>6 DEF Queued
    <2>2. j + 1 \in DOMAIN q /\ q[j + 1] = e /\ j \in Nat /\ j >= 1
      BY <1>2, <2>1
    <2>3. j + 1 < 1
      BY <1>1, <1>6, <2>2 DEF Leads
    <2> QED BY <2>2, <2>3
  <1> QED BY <1>3, <1>4, <1>5, <1>6 DEF Calm

LEMMA CalmAppend ==
  ASSUME NEW S, NEW q \in Seq(S), NEW a \in S, NEW e, NEW k
  PROVE  /\ a # e /\ Leads(q, e, k) => Leads(Append(q, a), e, k)
         /\ ~Mentions(q, k) => Leads(Append(q, a), e, k)
         /\ Mentions(Append(q, a), k) => Mentions(q, k) \/ About(a, k)
  <1>1. ASSUME NEW i \in DOMAIN Append(q, a)
        PROVE  \/ i \in DOMAIN q /\ Append(q, a)[i] = q[i]
               \/ i = Len(q) + 1 /\ Append(q, a)[i] = a
    OBVIOUS
  <1>2. Len(q) \in Nat /\ \A i \in DOMAIN q : i \in Nat /\ i <= Len(q)
    OBVIOUS
  <1>3. Mentions(Append(q, a), k) => Mentions(q, k) \/ About(a, k)
    BY <1>1 DEF Mentions
  <1>4. ASSUME NEW i \in DOMAIN Append(q, a), NEW j \in DOMAIN Append(q, a),
               Append(q, a)[j] = e, i # j, About(Append(q, a)[i], k),
               (a # e /\ Leads(q, e, k)) \/ ~Mentions(q, k)
        PROVE  j < i
    <2>1. CASE i \in DOMAIN q
      <3>1. Append(q, a)[i] = q[i]
        BY <1>1, <1>2, <2>1
      <3>2. Mentions(q, k)
        BY <1>4, <2>1, <3>1 DEF Mentions
      <3>3. j \in DOMAIN q /\ q[j] = e
        BY <1>1, <1>4, <3>2
      <3> QED BY <1>4, <2>1, <3>1, <3>2, <3>3 DEF Leads
    <2>2. CASE i \notin DOMAIN q
      <3>1. i = Len(q) + 1
        BY <1>1, <2>2
      <3>2. j \in DOMAIN q
        BY <1>1, <1>4, <3>1
      <3> QED BY <1>2, <3>1, <3>2
    <2> QED BY <2>1, <2>2
  <1>5. (a # e /\ Leads(q, e, k)) \/ ~Mentions(q, k) => Leads(Append(q, a), e, k)
    BY <1>4 DEF Leads
  <1> QED BY <1>3, <1>5

LEMMA CalmPrefix ==
  ASSUME NEW S, NEW q \in Seq(S), NEW n \in 0..Len(q), NEW e, NEW k
  PROVE  Calm(q, SubSeq(q, 1, n), e, k)
  <1>1. ASSUME NEW i \in DOMAIN SubSeq(q, 1, n)
        PROVE  i \in DOMAIN q /\ SubSeq(q, 1, n)[i] = q[i]
    OBVIOUS
  <1> QED BY <1>1 DEF Calm, Leads, Mentions

\* The head of a queue is changed, and neither is nor was about a stream.
LEMMA CalmHead ==
  ASSUME NEW S, NEW q \in Seq(S), q # <<>>, NEW a, NEW e, NEW k, a # e, ~About(a, k)
  PROVE  Calm(q, [q EXCEPT ![1] = a], e, k)
  <1> DEFINE r == [q EXCEPT ![1] = a]
  <1>1. DOMAIN r = DOMAIN q /\ 1 \in DOMAIN q
    OBVIOUS
  <1>2. ASSUME NEW i \in DOMAIN r PROVE i \in DOMAIN q /\ (r[i] = q[i] \/ r[i] = a)
    BY <1>1, <1>2
  <1> HIDE DEF r
  <1>3. Calm(q, r, e, k)
    BY <1>2 DEF Calm, Leads, Mentions
  <1> QED BY <1>3 DEF r

-----------------------------------------------------------------------------
(* The invariant.                                                           *)

\* The id of stream k has been allotted, by the side it is local to.
Allotted(s, k) == IF k[2] THEN k[1] <= nextId[s] ELSE k[1] <= nextId[Peer(s)]

\* Side s has nothing of stream k, in its queues or with its halves.
Untouched(s, k) ==
  /\ ~Mentions(wq[s], k) /\ ~Mentions(uq[s], k) /\ k \notin helper[s] /\ ~pend[s][k]
  /\ flushed[s][k] = 0 /\ wbuf[s][k] = <<>> /\ arr[s][k] = <<>>

\* Until a stream is opened on a side nothing of it is there; its registration leads both
\* queues, as its id, on the side that accepts it, leads the frames about it.
OrderedKey(s, k) ==
  /\ Opened(s, k) \/ Untouched(s, k)
  /\ Leads(wq[s], Register(k), k) /\ Leads(uq[s], Register(k), k)
  /\ k \in helper[s] => ~Queued(uq[s], Register(k))
  /\ ~k[2] => Leads(net[Peer(s)], OpenFrame(k[1]), k)
  /\ Mentions(net[Peer(s)], k) => Allotted(s, k)

OrderedQueues == \A s \in Side, k \in Key : OrderedKey(s, k)

LEMMA PeerSide ==
  ASSUME NEW s \in Side
  PROVE  Peer(s) \in Side /\ Peer(Peer(s)) = s /\ Peer(s) # s
  BY SidesAssumption DEF Peer, Side

LEMMA MirrorKey ==
  ASSUME NEW k \in Key
  PROVE  /\ Mirror(k) \in Key /\ Mirror(Mirror(k)) = k
         /\ Mirror(k)[1] = k[1] /\ Mirror(k)[2] = ~k[2]
         /\ k[1] \in WireId /\ k[1] \in Nat /\ k[2] \in BOOLEAN
         /\ k[2] => k = Local(k[1])
         /\ ~k[2] => k = Remote(k[1])
  <1>1. k = <<k[1], k[2]>> /\ k[1] \in WireId /\ k[2] \in BOOLEAN
    BY DEF Key
  <1>2. k[1] \in Nat
    BY <1>1 DEF WireId
  <1>3. /\ Mirror(k) \in Key /\ Mirror(k)[1] = k[1] /\ Mirror(k)[2] = ~k[2]
    BY <1>1 DEF Mirror, Key
  <1>4. Mirror(Mirror(k)) = <<k[1], ~~k[2]>>
    BY <1>3 DEF Mirror
  <1>5. (k[2] => k = Local(k[1])) /\ (~k[2] => k = Remote(k[1]))
    BY <1>1 DEF Local, Remote
  <1> QED BY <1>1, <1>2, <1>3, <1>4, <1>5

\* The two names of a stream stand for the same id.
LEMMA MirrorAllotted ==
  ASSUME NEW s \in Side, NEW k \in Key
  PROVE  Allotted(s, k) <=> Allotted(Peer(s), Mirror(k))
  BY PeerSide, MirrorKey DEF Allotted

LEMMA OpenedAllotted ==
  ASSUME NEW s \in Side, NEW k \in Key, Opened(s, k)
  PROVE  Allotted(s, k)
  BY DEF Opened, Allotted

\* What a step does to the W queue, the U queue and the frames that are about stream k
\* of side x, when it does not open the stream.
WKeeps(x, k) ==
  /\ Leads(wq[x], Register(k), k) => Leads(wq'[x], Register(k), k)
  /\ Mentions(wq'[x], k) => Mentions(wq[x], k) \/ Opened(x, k)
UKeeps(x, k) ==
  /\ Leads(uq[x], Register(k), k) => Leads(uq'[x], Register(k), k)
  /\ Mentions(uq'[x], k) => Mentions(uq[x], k) \/ Opened(x, k)
NKeeps(x, k) ==
  /\ ~k[2] /\ Leads(net[Peer(x)], OpenFrame(k[1]), k)
       => Leads(net'[Peer(x)], OpenFrame(k[1]), k)
  /\ Mentions(net'[Peer(x)], k) => Mentions(net[Peer(x)], k) \/ Allotted(x, k)
HKeeps(x, k) ==
  k \in helper'[x] /\ Queued(uq'[x], Register(k)) => k \in helper[x] /\ Queued(uq[x], Register(k))
\* Nothing of the stream comes up, or the stream is open already.
DataKeeps(x, k) ==
  \/ Opened(x, k)
  \/ /\ k \in helper'[x] => k \in helper[x]
     /\ pend'[x][k] => pend[x][k]
     /\ flushed'[x][k] = flushed[x][k] /\ arr'[x][k] = arr[x][k]
     /\ wbuf'[x][k] = wbuf[x][k] \/ wbuf'[x][k] = <<>>

LEMMA KeyStep ==
  ASSUME NEW x \in Side, NEW k \in Key, OrderedKey(x, k),
         Opened(x, k) => Opened(x, k)', Allotted(x, k) => Allotted(x, k)',
         WKeeps(x, k), UKeeps(x, k), NKeeps(x, k), HKeeps(x, k), DataKeeps(x, k)
  PROVE  OrderedKey(x, k)'
  <1>1. Opened(x, k)' \/ Untouched(x, k)'
    BY DEF OrderedKey, Untouched, WKeeps, UKeeps, DataKeeps
  <1>2. Leads(wq'[x], Register(k), k) /\ Leads(uq'[x], Register(k), k)
    BY DEF OrderedKey, WKeeps, UKeeps
  <1>3. k \in helper'[x] => ~Queued(uq'[x], Register(k))
    BY DEF OrderedKey, HKeeps
  <1>4. ~k[2] => Leads(net'[Peer(x)], OpenFrame(k[1]), k)
    BY DEF OrderedKey, NKeeps
  <1>5. Mentions(net'[Peer(x)], k) => Allotted(x, k)'
    BY DEF OrderedKey, NKeeps
  <1> QED BY <1>1, <1>2, <1>3, <1>4, <1>5 DEF OrderedKey

-----------------------------------------------------------------------------
(* What the operations do to the queues.                                    *)

LEMMA StillKeeps ==
  ASSUME NEW x \in Side, NEW k \in Key
  PROVE  /\ wq'[x] = wq[x] => WKeeps(x, k)
         /\ uq'[x] = uq[x] => UKeeps(x, k)
         /\ net'[Peer(x)] = net[Peer(x)] => NKeeps(x, k)
         /\ uq'[x] = uq[x] /\ helper'[x] \subseteq helper[x] => HKeeps(x, k)
  BY DEF WKeeps, UKeeps, NKeeps, HKeeps

LEMMA PushWKeeps ==
  ASSUME TypeOK, NEW s \in Side, NEW e \in WiredEvent, PushW(s, e),
         NEW x \in Side, NEW k \in Key,
         x = s => e # Register(k) /\ (About(e, k) => Opened(s, k))
  PROVE  WKeeps(x, k)
  <1>1. wq \in [Side -> Seq(WiredEvent)] /\ wq[x] \in Seq(WiredEvent)
    BY DEF TypeOK
  <1>2. wq'[x] = wq[x] \/ (x = s /\ wq'[x] = Append(wq[x], e))
    BY <1>1 DEF PushW, Pushed
  <1>3. CASE x = s /\ wq'[x] = Append(wq[x], e)
    BY <1>1, <1>3, CalmAppend DEF WKeeps
  <1> QED BY <1>2, <1>3, StillKeeps

LEMMA PopWKeeps ==
  ASSUME TypeOK, NEW s \in Side, wq[s] # <<>>, PopW(s), NEW x \in Side, NEW k \in Key
  PROVE  WKeeps(x, k)
  <1>1. wq \in [Side -> Seq(WiredEvent)] /\ wq[x] \in Seq(WiredEvent)
    BY DEF TypeOK
  <1>2. wq'[x] = wq[x] \/ (x = s /\ wq'[x] = Tail(wq[x]))
    BY <1>1 DEF PopW
  <1>3. CASE x = s /\ wq'[x] = Tail(wq[x])
    BY <1>1, <1>3, CalmTail DEF WKeeps, Calm
  <1> QED BY <1>2, <1>3, StillKeeps

LEMMA PushUKeeps ==
  ASSUME TypeOK, NEW s \in Side, NEW e \in UnwiredEvent, PushU(s, e),
         NEW x \in Side, NEW k \in Key,
         x = s => e # Register(k) /\ (About(e, k) => Opened(s, k))
  PROVE  UKeeps(x, k) /\ (helper'[x] \subseteq helper[x] => HKeeps(x, k))
  <1>1. uq \in [Side -> Seq(UnwiredEvent)] /\ uq[x] \in Seq(UnwiredEvent)
    BY DEF TypeOK
  <1>2. uq'[x] = uq[x] \/ (x = s /\ uq'[x] = Append(uq[x], e))
    BY <1>1 DEF PushU, Pushed
  <1>3. CASE x = s /\ uq'[x] = Append(uq[x], e)
    <2>1. UKeeps(x, k)
      BY <1>1, <1>3, CalmAppend DEF UKeeps
    <2>2. NoneAdded(uq[x], uq'[x], Register(k))
      BY <1>1, <1>3, AppendAdds
    <2> QED BY <2>1, <2>2 DEF HKeeps, NoneAdded
  <1> QED BY <1>2, <1>3, StillKeeps

LEMMA PopUKeeps ==
  ASSUME TypeOK, NEW s \in Side, NEW t, HelperAt(s, t), NEW x \in Side, NEW k \in Key
  PROVE  UKeeps(x, k) /\ (helper'[x] \subseteq helper[x] => HKeeps(x, k))
  <1>1. uq \in [Side -> Seq(UnwiredEvent)] /\ uq[x] \in Seq(UnwiredEvent)
    BY DEF TypeOK
  <1>2. uq'[x] = uq[x] \/ (x = s /\ uq[x] # <<>> /\ uq'[x] = Tail(uq[x]))
    BY <1>1 DEF HelperAt
  <1>3. CASE uq[x] # <<>> /\ uq'[x] = Tail(uq[x])
    <2>1. UKeeps(x, k)
      BY <1>1, <1>3, CalmTail DEF UKeeps, Calm
    <2>2. NoneAdded(uq[x], uq'[x], Register(k))
      BY <1>1, <1>3, TailAdds
    <2> QED BY <2>1, <2>2 DEF HKeeps, NoneAdded
  <1> QED BY <1>2, <1>3, StillKeeps

LEMMA ReadingKeeps ==
  ASSUME TypeOK, NEW s \in Side, NEW t, Reading(s, t), NEW x \in Side, NEW k \in Key
  PROVE  NKeeps(x, k)
  <1>1. Peer(x) \in Side
    BY PeerSide
  <1>2. net \in [Side -> Seq(WiringEvent)] /\ net[Peer(x)] \in Seq(WiringEvent)
    BY <1>1 DEF TypeOK
  <1>3. \/ net'[Peer(x)] = net[Peer(x)]
        \/ net[Peer(x)] # <<>> /\ net'[Peer(x)] = Tail(net[Peer(x)])
    BY <1>1, <1>2 DEF Reading
  <1>4. CASE net[Peer(x)] # <<>> /\ net'[Peer(x)] = Tail(net[Peer(x)])
    BY <1>2, <1>4, CalmTail DEF NKeeps, Calm
  <1> QED BY <1>3, <1>4, StillKeeps

\* A frame of a stream goes out.
LEMMA WriteKeeps ==
  ASSUME TypeOK, NEW s \in Side, NEW f \in WiringEvent, f.t # "open",
         net' = net \/ net' = [net EXCEPT ![s] = Append(@, f)],
         NEW x \in Side, NEW k \in Key,
         x = Peer(s) /\ About(f, k) => Allotted(x, k)
  PROVE  NKeeps(x, k)
  <1>1. Peer(x) \in Side /\ (Peer(x) = s => x = Peer(s))
    BY PeerSide
  <1>2. net \in [Side -> Seq(WiringEvent)] /\ net[Peer(x)] \in Seq(WiringEvent)
    BY <1>1 DEF TypeOK
  <1>3. \/ net'[Peer(x)] = net[Peer(x)]
        \/ Peer(x) = s /\ net'[Peer(x)] = Append(net[Peer(x)], f)
    BY <1>1, <1>2
  <1>4. CASE Peer(x) = s /\ net'[Peer(x)] = Append(net[Peer(x)], f)
    <2>1. f # OpenFrame(k[1])
      BY Kinds
    <2> QED BY <1>1, <1>2, <1>4, <2>1, CalmAppend DEF NKeeps
  <1> QED BY <1>3, <1>4, StillKeeps

-----------------------------------------------------------------------------
(* Steps that open no stream.                                               *)

LEMMA KnownOpened ==
  ASSUME OpenedOnce, OrderedQueues, NEW x \in Side, NEW k \in Key,
         \/ k \in wired[x] \/ wh[x][k] # "none" \/ rh[x][k] # "none" \/ RxAlive(x, k)
         \/ k \in helper[x] \/ Mentions(wq[x], k) \/ Mentions(uq[x], k) \/ pend[x][k]
  PROVE  Opened(x, k)
  <1>1. EntersOnce(x, k) /\ OrderedKey(x, k)
    BY DEF OpenedOnce, OrderedQueues
  <1> QED BY <1>1 DEF EntersOnce, OrderedKey, Unknown, Untouched, RxAlive

LEMMA DataSame ==
  ASSUME NEW x \in Side, NEW k \in Key, helper'[x] \subseteq helper[x],
         pend'[x][k] = pend[x][k], flushed'[x][k] = flushed[x][k], arr'[x][k] = arr[x][k],
         wbuf'[x][k] = wbuf[x][k]
  PROVE  DataKeeps(x, k)
  BY DEF DataKeeps

LEMMA OrderedStep ==
  ASSUME TypeOK, OrderedQueues, NoFrame, nextId' = nextId,
         \A x \in Side, k \in Key : /\ WKeeps(x, k) /\ UKeeps(x, k) /\ NKeeps(x, k)
                                    /\ HKeeps(x, k) /\ DataKeeps(x, k)
  PROVE  OrderedQueues'
  <1> SUFFICES ASSUME NEW x \in Side, NEW k \in Key PROVE OrderedKey(x, k)'
    BY DEF OrderedQueues
  <1>1. OrderedKey(x, k)
    BY DEF OrderedQueues
  <1>2. Opened(x, k) => Opened(x, k)'
    BY StaysOpened
  <1>3. Allotted(x, k) => Allotted(x, k)'
    BY DEF Allotted
  <1> QED BY <1>1, <1>2, <1>3, KeyStep

LEMMA NotAbout ==
  /\ \A k : ~About(None, k) /\ ~About(EventFrame, k)
  /\ \A n, k : ~About(Event(n), k) /\ ~About(OpenFrame(n), k)
  /\ \A j, k : About(Register(j), k) \/ About(Message(j), k) \/ About(DropFrame(j), k) => j = k
  /\ \A b, j, k : About(Drop(j, b), k) => j = k
  /\ \A n, j, k : About(Data(j, n), k) => j = k
  /\ \A k : About(Register(k), k) /\ About(Message(k), k) /\ About(DropFrame(k), k)
  /\ \A b, k : About(Drop(k, b), k)
  /\ \A n, k : About(Data(k, n), k)
  BY DEF About, None, EventFrame, Event, OpenFrame, Register, Message, DropFrame, Drop, Data

LEMMA DropAbout ==
  ASSUME NEW j, NEW k
  PROVE  /\ Drop(j, FALSE) # Register(k) /\ Drop(j, TRUE) # Register(k)
         /\ About(Drop(j, FALSE), k) => j = k
         /\ About(Drop(j, TRUE), k) => j = k
         /\ Drop(j, FALSE) # Message(k) /\ Drop(j, TRUE) # Message(k)
  <1>1. /\ Drop(j, FALSE).t = "drop" /\ Drop(j, TRUE).t = "drop"
        /\ Drop(j, FALSE).k = j /\ Drop(j, TRUE).k = j
        /\ Register(k).t = "register" /\ Message(k).t = "message"
    BY DEF Drop, Register, Message
  <1> QED BY <1>1 DEF About

\* The wired task takes an event of its queue and, possibly, writes a frame.
LEMMA OrderedWired ==
  ASSUME TypeOK, OpenedOnce, OrderedQueues, NEW s \in Side,
         \/ WiredNone(s) \/ WiredEventFails(s) \/ WiredEventDone(s) \/ WiredRegister(s)
         \/ WiredEnd(s)
  PROVE  OrderedQueues'
  <1> USE DEF wiredVars, helperVars, netVars, halfVars
  <1>1. /\ UNCHANGED <<nextId, uq, helper, pend, flushed, arr>>
        /\ WiredEnd(s) \/ (UNCHANGED wbuf /\ wq[s] # <<>> /\ PopW(s))
        /\ WiredEventDone(s) \/ UNCHANGED net
    BY DEF WiredNone, WiredEventFails, WiredEventDone, WiredRegister, WiredEnd, WiredAt
  <1>2. ASSUME NEW x \in Side, NEW k \in Key PROVE WKeeps(x, k)
    <2>1. CASE WiredEnd(s)
      BY <2>1, StillKeeps DEF WiredEnd
    <2> QED BY <1>1, <2>1, PopWKeeps
  <1>3. NoFrame /\ \A x \in Side, k \in Key : NKeeps(x, k)
    <2>1. CASE WiredEventDone(s)
      <3>1. Write(s, EventFrame) /\ EventFrame \in WiringEvent /\ EventFrame.t # "open"
        BY <2>1, EventTypes, Kinds2 DEF WiredEventDone
      <3>2. net' = net \/ net' = [net EXCEPT ![s] = Append(@, EventFrame)]
        BY <3>1 DEF Write
      <3> QED BY <3>1, <3>2, WriteHarmless, WriteKeeps, NotAbout
    <2>2. CASE UNCHANGED net
      BY <2>2, StillKeeps, StillQuiet
    <2> QED BY <1>1, <2>1, <2>2
  <1>4. ASSUME NEW x \in Side, NEW k \in Key
        PROVE UKeeps(x, k) /\ HKeeps(x, k) /\ DataKeeps(x, k)
    <2>1. UKeeps(x, k) /\ HKeeps(x, k)
      BY <1>1, StillKeeps
    <2>2. wbuf'[x][k] = wbuf[x][k] \/ wbuf'[x][k] = <<>>
      <3>1. wbuf \in [Side -> [Key -> Seq(Nat \ {0})]]
        BY DEF TypeOK
      <3>2. CASE WiredEnd(s)
        <4>1. wbuf' = [wbuf EXCEPT ![s] = [i \in Key |-> <<>>]]
          BY <3>2 DEF WiredEnd
        <4> QED BY <3>1, <4>1
      <3> QED BY <1>1, <3>2
    <2> QED BY <1>1, <2>1, <2>2 DEF DataKeeps
  <1> QED BY <1>1, <1>2, <1>3, <1>4, OrderedStep

\* A frame about a stream of side s goes out, or is lost.
LEMMA FrameKeeps ==
  ASSUME TypeOK, OpenedOnce, OrderedQueues, NEW s \in Side, NEW j \in Key, j \in wired[s],
         NEW f \in WiringEvent, f.t # "open", Write(s, f),
         \A k \in Key : About(f, k) => k = Mirror(j)
  PROVE  NoFrame /\ \A x \in Side, k \in Key : NKeeps(x, k)
  <1>1. NoFrame
    BY WriteHarmless
  <1>2. net' = net \/ net' = [net EXCEPT ![s] = Append(@, f)]
    BY DEF Write
  <1>3. Allotted(Peer(s), Mirror(j))
    BY KnownOpened, OpenedAllotted, MirrorAllotted
  <1> QED BY <1>1, <1>2, <1>3, WriteKeeps

LEMMA OrderedMessage ==
  ASSUME TypeOK, OpenedOnce, OrderedQueues, NEW s \in Side, WiredMessage(s)
  PROVE  OrderedQueues'
  <1> USE DEF helperVars, halfVars
  <1> DEFINE j == Head(wq[s]).k
  <1>1. /\ UNCHANGED <<nextId, uq, helper, pend, flushed, arr>>
        /\ WiredAt(s, "message") /\ wq[s] # <<>> /\ PopW(s)
    BY DEF WiredMessage, WiredAt
  <1>2. j \in Key /\ wbuf \in [Side -> [Key -> Seq(Nat \ {0})]]
    BY <1>1, HeadW DEF TypeOK
  <1>3. \A x \in Side, k \in Key : WKeeps(x, k) /\ UKeeps(x, k) /\ HKeeps(x, k)
    BY <1>1, PopWKeeps, StillKeeps
  <1>4. CASE j \in wired[s] /\ wbuf[s][j] # <<>>
    <2> DEFINE f == Data(Mirror(j), Head(wbuf[s][j]))
    <2>1. Write(s, f) /\ wbuf' = [wbuf EXCEPT ![s][j] = Tail(@)]
      BY <1>4 DEF WiredMessage
    <2>2. Head(wbuf[s][j]) \in Nat \ {0} /\ Mirror(j) \in Key
      <3> HIDE DEF j
      <3> QED BY <1>2, <1>4, ChannelType, MirrorKey
    <2>3. f \in WiringEvent
      BY <2>2, EventTypes
    <2>4. f.t # "open" /\ \A k \in Key : About(f, k) => k = Mirror(j)
      BY Kinds2, NotAbout
    <2> HIDE DEF f, j
    <2>5. NoFrame /\ \A x \in Side, k \in Key : NKeeps(x, k)
      BY <1>2, <1>4, <2>1, <2>3, <2>4, FrameKeeps
    <2>6. ASSUME NEW x \in Side, NEW k \in Key PROVE DataKeeps(x, k)
      <3>1. CASE x = s /\ k = j
        BY <1>4, <3>1, KnownOpened DEF DataKeeps
      <3>2. CASE ~(x = s /\ k = j)
        <4>1. wbuf'[x][k] = wbuf[x][k]
          BY <1>2, <2>1, <3>2
        <4> QED BY <1>1, <4>1, DataSame
      <3> QED BY <3>1, <3>2
    <2> QED BY <1>1, <1>3, <2>5, <2>6, OrderedStep
  <1>5. CASE ~(j \in wired[s] /\ wbuf[s][j] # <<>>)
    <2>1. UNCHANGED <<wbuf, net>>
      BY <1>5 DEF WiredMessage
    <2>2. NoFrame /\ \A x \in Side, k \in Key : NKeeps(x, k) /\ DataKeeps(x, k)
      BY <1>1, <2>1, StillKeeps, StillQuiet, DataSame
    <2> QED BY <1>1, <1>3, <2>2, OrderedStep
  <1> QED BY <1>4, <1>5

LEMMA OrderedDrop ==
  ASSUME TypeOK, OpenedOnce, OrderedQueues, NEW s \in Side, WiredDrop(s)
  PROVE  OrderedQueues'
  <1> USE DEF helperVars, halfVars
  <1> DEFINE e == Head(wq[s])
             j == e.k
  <1>1. /\ UNCHANGED <<nextId, helper, pend, flushed, arr>>
        /\ WiredAt(s, "drop") /\ wq[s] # <<>> /\ PopW(s)
    BY DEF WiredDrop, WiredAt
  <1>2. j \in Key /\ e.broadcast \in BOOLEAN /\ wbuf \in [Side -> [Key -> Seq(Nat \ {0})]]
    BY <1>1, HeadW DEF TypeOK
  <1>3. \A x \in Side, k \in Key : WKeeps(x, k)
    BY <1>1, PopWKeeps
  <1>4. CASE j \notin wired[s]
    <2>1. UNCHANGED <<wbuf, net, uq>>
      BY <1>4 DEF WiredDrop
    <2>2. NoFrame /\ \A x \in Side, k \in Key : /\ NKeeps(x, k) /\ DataKeeps(x, k)
                                                /\ UKeeps(x, k) /\ HKeeps(x, k)
      BY <1>1, <2>1, StillKeeps, StillQuiet, DataSame
    <2> QED BY <1>1, <1>3, <2>2, OrderedStep
  <1>5. CASE j \in wired[s]
    <2>1. Dropped(s, e) /\ PushU(s, Drop(j, FALSE))
      BY <1>5 DEF WiredDrop
    <2>2. /\ wbuf' = [wbuf EXCEPT ![s][j] = <<>>]
          /\ e.broadcast => Write(s, DropFrame(Mirror(j)))
          /\ ~e.broadcast => UNCHANGED net
      BY <2>1 DEF Dropped
    <2> HIDE DEF e, j
    <2>3. NoFrame /\ \A x \in Side, k \in Key : NKeeps(x, k)
      <3>1. CASE e.broadcast
        <4>1. DropFrame(Mirror(j)) \in WiringEvent
          BY <1>2, MirrorKey, EventTypes
        <4>2. /\ DropFrame(Mirror(j)).t # "open"
              /\ \A k \in Key : About(DropFrame(Mirror(j)), k) => k = Mirror(j)
          BY Kinds2, NotAbout
        <4>3. Write(s, DropFrame(Mirror(j)))
          BY <2>2, <3>1
        <4> QED BY <1>2, <1>5, <4>1, <4>2, <4>3, FrameKeeps
      <3>2. CASE ~e.broadcast
        BY <2>2, <3>2, StillKeeps, StillQuiet
      <3> QED BY <3>1, <3>2
    <2>4. Opened(s, j)
      BY <1>2, <1>5, KnownOpened
    <2>5. ASSUME NEW x \in Side, NEW k \in Key PROVE UKeeps(x, k) /\ HKeeps(x, k)
      <3>0. Drop(j, FALSE) \in UnwiredEvent
        BY <1>2, EventTypes
      <3>1. Drop(j, FALSE) # Register(k)
        BY DropAbout
      <3>2. About(Drop(j, FALSE), k) => k = j
        BY NotAbout
      <3>3. helper'[x] \subseteq helper[x]
        BY <1>1
      <3> QED BY <2>1, <2>4, <3>0, <3>1, <3>2, <3>3, PushUKeeps
    <2>6. ASSUME NEW x \in Side, NEW k \in Key PROVE DataKeeps(x, k)
      <3>1. wbuf'[x][k] = wbuf[x][k] \/ wbuf'[x][k] = <<>>
        BY <1>2, <2>2
      <3> QED BY <1>1, <3>1 DEF DataKeeps
    <2> QED BY <1>1, <1>3, <2>3, <2>5, <2>6, OrderedStep
  <1> QED BY <1>4, <1>5

\* A frame about a stream comes only after the id of the stream.
LEMMA FrameOpened ==
  ASSUME TypeOK, OrderedQueues, NEW s \in Side, net[Peer(s)] # <<>>, NEW k \in Key,
         About(Head(net[Peer(s)]), k)
  PROVE  Opened(s, k)
  <1> DEFINE q == net[Peer(s)]
             e == OpenFrame(k[1])
  <1>1. q \in Seq(WiringEvent) /\ q # <<>> /\ About(Head(q), k)
    BY PeerSide DEF TypeOK
  <1>2. OrderedKey(s, k)
    BY DEF OrderedQueues
  <1>3. Head(q) # e
    BY <1>1, NotAbout
  <1>4. 1 \in DOMAIN q /\ q[1] = Head(q) /\ \A j \in DOMAIN q : ~(j < 1)
    <2> HIDE DEF q
    <2> QED BY <1>1
  <1>5. Mentions(q, k)
    BY <1>1, <1>4 DEF Mentions
  <1>6. Leads(q, e, k) => ~Queued(q, e)
    <2> HIDE DEF q, e
    <2> QED BY <1>1, <1>3, <1>4 DEF Leads, Queued
  <1> QED BY <1>2, <1>5, <1>6 DEF OrderedKey, Opened, Allotted

LEMMA OrderedReader ==
  ASSUME TypeOK, OpenedOnce, OrderedQueues, NEW s \in Side,
         \/ ReadEvent(s) \/ ReadMessage(s) \/ ReadDrop(s) \/ ReadEnd(s) \/ ReadJoin(s)
  PROVE  OrderedQueues'
  <1> USE DEF wiredVars, helperVars, netVars, halfVars
  <1>1. UNCHANGED <<nextId, helper, pend, flushed, arr, wbuf>>
    BY DEF ReadEvent, ReadMessage, ReadDrop, ReadEnd, ReadJoin
  <1>2. \A x \in Side, k \in Key : DataKeeps(x, k)
    BY <1>1, DataSame
  <1>3. CASE ReadEvent(s)
    <2>1. Reading(s, "event") /\ UNCHANGED <<wq, uq>>
      BY <1>3 DEF ReadEvent
    <2>2. NoFrame /\ \A x \in Side, k \in Key : NKeeps(x, k)
      BY <2>1, ReadHarmless, ReadingKeeps
    <2>3. \A x \in Side, k \in Key : WKeeps(x, k) /\ UKeeps(x, k) /\ HKeeps(x, k)
      BY <1>1, <2>1, StillKeeps
    <2> QED BY <1>1, <1>2, <2>2, <2>3, OrderedStep
  <1>4. ASSUME NEW t, Reading(s, t), UNCHANGED wq, NEW e \in UnwiredEvent, PushU(s, e),
               \A k \in Key : /\ e # Register(k)
                              /\ About(e, k) => About(Head(net[Peer(s)]), k)
        PROVE  OrderedQueues'
    <2>1. NoFrame /\ \A x \in Side, k \in Key : NKeeps(x, k) /\ WKeeps(x, k)
      BY <1>4, ReadHarmless, ReadingKeeps, StillKeeps
    <2>2. net[Peer(s)] # <<>>
      BY <1>4 DEF Reading
    <2>3. ASSUME NEW x \in Side, NEW k \in Key PROVE UKeeps(x, k) /\ HKeeps(x, k)
      <3>1. e # Register(k) /\ (About(e, k) => Opened(s, k))
        BY <1>4, <2>2, FrameOpened
      <3>2. helper'[x] \subseteq helper[x]
        BY <1>1
      <3> QED BY <1>4, <3>1, <3>2, PushUKeeps
    <2> QED BY <1>1, <1>2, <2>1, <2>3, OrderedStep
  <1>5. CASE ReadMessage(s)
    <2> DEFINE e == Head(net[Peer(s)])
    <2>1. Reading(s, "data") /\ UNCHANGED wq /\ PushU(s, e)
      BY <1>5 DEF ReadMessage
    <2>2. e \in UnwiredEvent /\ e.t = "data"
      BY <2>1, HeadNet
    <2> HIDE DEF e
    <2>3. \A k \in Key : e # Register(k)
      BY <2>2, Kinds
    <2> QED BY <1>4, <2>1, <2>2, <2>3 DEF e
  <1>6. CASE ReadDrop(s)
    <2> DEFINE h == Head(net[Peer(s)])
               j == h.k
               e == Drop(j, TRUE)
    <2>1. Reading(s, "drop") /\ UNCHANGED wq /\ PushU(s, e)
      BY <1>6 DEF ReadDrop
    <2>2. j \in Key /\ h.t = "drop"
      BY <2>1, HeadNet
    <2>3. e \in UnwiredEvent
      <3> HIDE DEF j
      <3> QED BY <2>2, EventTypes
    <2>4. ASSUME NEW k \in Key PROVE e # Register(k) /\ (About(e, k) => About(h, k))
      <3>1. e # Register(k)
        BY Kinds, Kinds2
      <3>2. About(e, k) => j = k
        BY NotAbout
      <3>3. j = k => About(h, k)
        BY <2>2 DEF About
      <3> QED BY <3>1, <3>2, <3>3
    <2> HIDE DEF e, j
    <2> QED BY <1>4, <2>1, <2>3, <2>4
  <1>7. CASE ReadEnd(s)
    <2>1. UNCHANGED <<wq, net>> /\ PushU(s, None) /\ None \in UnwiredEvent
      BY <1>7, EventTypes DEF ReadEnd
    <2>2. NoFrame /\ \A x \in Side, k \in Key : NKeeps(x, k) /\ WKeeps(x, k)
      BY <2>1, StillKeeps, StillQuiet
    <2>3. ASSUME NEW x \in Side, NEW k \in Key PROVE UKeeps(x, k) /\ HKeeps(x, k)
      <3>1. None # Register(k) /\ ~About(None, k)
        BY Kinds, Kinds2, NotAbout
      <3>2. helper'[x] \subseteq helper[x]
        BY <1>1
      <3> QED BY <2>1, <3>1, <3>2, PushUKeeps
    <2> QED BY <1>1, <1>2, <2>2, <2>3, OrderedStep
  <1>8. CASE ReadJoin(s)
    <2>1. UNCHANGED <<uq, net>> /\ PushW(s, None) /\ None \in WiredEvent
      BY <1>8, EventTypes DEF ReadJoin
    <2>2. NoFrame /\ \A x \in Side, k \in Key : NKeeps(x, k) /\ UKeeps(x, k) /\ HKeeps(x, k)
      BY <1>1, <2>1, StillKeeps, StillQuiet
    <2>3. ASSUME NEW x \in Side, NEW k \in Key PROVE WKeeps(x, k)
      <3>1. None # Register(k) /\ ~About(None, k)
        BY Kinds, Kinds2, NotAbout
      <3> QED BY <2>1, <3>1, PushWKeeps
    <2> QED BY <1>1, <1>2, <2>2, <2>3, OrderedStep
  <1> QED BY <1>3, <1>5, <1>6, <1>7, <1>8

LEMMA OrderedHelper ==
  ASSUME TypeOK, OpenedOnce, OrderedQueues, NEW s \in Side, HelperStep(s)
  PROVE  OrderedQueues'
  <1> USE DEF wiredVars, netVars, halfVars
  <1>1. UNCHANGED <<nextId, net, pend, flushed, wbuf>>
    BY DEF HelperStep, HelperMessage, HelperRegister, HelperDrop, HelperNone, HelperEnd
  <1>2. NoFrame /\ \A x \in Side, k \in Key : NKeeps(x, k)
    BY <1>1, StillKeeps, StillQuiet
  <1>3. /\ helper \in [Side -> SUBSET Key]
        /\ arr \in [Side -> [Key -> Seq(Nat \ {0})]]
        /\ uq \in [Side -> Seq(UnwiredEvent)]
    BY DEF TypeOK
  <1>4. CASE HelperMessage(s)
    <2> DEFINE j == Head(uq[s]).k
    <2>1. HelperAt(s, "data") /\ UNCHANGED <<wq, helper>>
      BY <1>4 DEF HelperMessage
    <2>2. j \in Key
      BY <2>1, HeadU
    <2>3. \A x \in Side, k \in Key : WKeeps(x, k) /\ UKeeps(x, k) /\ HKeeps(x, k)
      BY <2>1, PopUKeeps, StillKeeps
    <2>4. arr' = arr \/ (j \in helper[s] /\ arr' = [arr EXCEPT ![s][j] = Append(@, Head(uq[s]).n)])
      BY <1>4 DEF HelperMessage
    <2> HIDE DEF j
    <2>5. ASSUME NEW x \in Side, NEW k \in Key PROVE DataKeeps(x, k)
      <3>1. CASE x = s /\ k = j /\ j \in helper[s]
        BY <3>1, KnownOpened DEF DataKeeps
      <3>2. CASE ~(x = s /\ k = j /\ j \in helper[s])
        <4>1. arr'[x][k] = arr[x][k]
          BY <1>3, <2>2, <2>4, <3>2
        <4> QED BY <1>1, <2>1, <4>1, DataSame
      <3> QED BY <3>1, <3>2
    <2> QED BY <1>1, <1>2, <2>3, <2>5, OrderedStep
  <1>5. CASE HelperRegister(s)
    <2> DEFINE j == Head(uq[s]).k
    <2>1. /\ HelperAt(s, "register") /\ UNCHANGED <<wq, arr>>
          /\ helper' = [helper EXCEPT ![s] = @ \cup {j}]
      BY <1>5 DEF HelperRegister
    <2>2. /\ j \in Key /\ uq[s] # <<>> /\ uq[s] \in Seq(UnwiredEvent)
          /\ uq'[s] = Tail(uq[s]) /\ Head(uq[s]).t = "register"
      BY <1>3, <2>1, HeadU DEF HelperAt
    <2>3. About(Head(uq[s]), j)
      BY <2>2 DEF About
    <2> HIDE DEF j
    <2>4. ASSUME NEW x \in Side, NEW k \in Key PROVE HKeeps(x, k)
      <3>1. CASE x = s /\ k = j
        <4>1. Leads(uq[s], Register(j), j)
          BY <2>2 DEF OrderedQueues, OrderedKey
        <4>2. ~Queued(uq'[s], Register(j))
          BY <2>2, <2>3, <4>1, CalmTail
        <4> QED BY <3>1, <4>2 DEF HKeeps
      <3>2. CASE ~(x = s /\ k = j)
        <4>1. NoneAdded(uq[x], uq'[x], Register(k))
          <5>1. uq[x] \in Seq(UnwiredEvent)
            BY <1>3
          <5>2. uq'[x] = uq[x] \/ (uq[x] # <<>> /\ uq'[x] = Tail(uq[x]))
            BY <1>3, <2>1 DEF HelperAt
          <5> QED BY <5>1, <5>2, SameAdds, TailAdds
        <4>2. k \in helper'[x] => k \in helper[x]
          BY <1>3, <2>1, <3>2
        <4> QED BY <4>1, <4>2 DEF HKeeps, NoneAdded
      <3> QED BY <3>1, <3>2
    <2>5. ASSUME NEW x \in Side, NEW k \in Key PROVE DataKeeps(x, k)
      <3>1. CASE x = s /\ k = j
        <4>1. Mentions(uq[s], j)
          BY <2>2, <2>3, CalmTail
        <4> QED BY <3>1, <4>1, KnownOpened DEF DataKeeps
      <3>2. CASE ~(x = s /\ k = j)
        <4>1. k \in helper'[x] => k \in helper[x]
          BY <1>3, <2>1, <3>2
        <4> QED BY <1>1, <2>1, <4>1 DEF DataKeeps
      <3> QED BY <3>1, <3>2
    <2>6. \A x \in Side, k \in Key : WKeeps(x, k) /\ UKeeps(x, k)
      BY <2>1, PopUKeeps, StillKeeps
    <2> QED BY <1>1, <1>2, <2>4, <2>5, <2>6, OrderedStep
  <1>6. CASE HelperDrop(s)
    <2> DEFINE j == Head(uq[s]).k
    <2>1. /\ HelperAt(s, "drop") /\ UNCHANGED arr
          /\ helper' = [helper EXCEPT ![s] = @ \ {j}]
          /\ wq' = wq \/ (j \in helper[s] /\ PushW(s, Drop(j, FALSE)))
      BY <1>6 DEF HelperDrop
    <2>2. j \in Key
      BY <2>1, HeadU
    <2> HIDE DEF j
    <2>3. \A x \in Side : helper'[x] \subseteq helper[x]
      BY <1>3, <2>1
    <2>4. \A x \in Side, k \in Key : UKeeps(x, k) /\ HKeeps(x, k) /\ DataKeeps(x, k)
      BY <1>1, <2>1, <2>3, PopUKeeps, DataSame
    <2>5. ASSUME NEW x \in Side, NEW k \in Key PROVE WKeeps(x, k)
      <3>1. CASE wq' = wq
        BY <3>1, StillKeeps
      <3>2. CASE j \in helper[s] /\ PushW(s, Drop(j, FALSE))
        <4>1. Drop(j, FALSE) \in WiredEvent
          BY <2>2, EventTypes
        <4>2. Drop(j, FALSE) # Register(k)
          BY DropAbout
        <4>3. About(Drop(j, FALSE), k) => Opened(s, k)
          BY <2>2, <3>2, DropAbout, KnownOpened
        <4> QED BY <3>2, <4>1, <4>2, <4>3, PushWKeeps
      <3> QED BY <2>1, <3>1, <3>2
    <2> QED BY <1>1, <1>2, <2>4, <2>5, OrderedStep
  <1>7. CASE HelperNone(s)
    <2>1. HelperAt(s, "none") /\ UNCHANGED <<wq, helper, arr>>
      BY <1>7 DEF HelperNone
    <2>2. \A x \in Side, k \in Key : /\ WKeeps(x, k) /\ UKeeps(x, k) /\ HKeeps(x, k)
                                     /\ DataKeeps(x, k)
      BY <1>1, <2>1, PopUKeeps, StillKeeps, DataSame
    <2> QED BY <1>1, <1>2, <2>2, OrderedStep
  <1>8. CASE HelperEnd(s)
    <2>1. UNCHANGED <<wq, uq, arr>> /\ helper' = [helper EXCEPT ![s] = {}]
      BY <1>8 DEF HelperEnd
    <2>2. \A x \in Side : helper'[x] \subseteq helper[x]
      BY <1>3, <2>1
    <2>3. \A x \in Side, k \in Key : /\ WKeeps(x, k) /\ UKeeps(x, k) /\ HKeeps(x, k)
                                     /\ DataKeeps(x, k)
      BY <1>1, <2>1, <2>2, StillKeeps, DataSame
    <2> QED BY <1>1, <1>2, <2>3, OrderedStep
  <1> QED BY <1>4, <1>5, <1>6, <1>7, <1>8 DEF HelperStep

\* The applications use their halves, or give them up.
LEMMA OrderedApp ==
  ASSUME TypeOK, OpenedOnce, OrderedQueues, NEW s \in Side, AppStep(s)
  PROVE  OrderedQueues'
  <1> USE DEF wiredVars, helperVars, netVars, halfVars
  <1>1. ASSUME NEW e \in WiredEvent, PushW(s, e), UNCHANGED <<net, nextId, uq, helper>>,
               \A k \in Key : e # Register(k) /\ (About(e, k) => Opened(s, k)),
               \A x \in Side, k \in Key : DataKeeps(x, k)
        PROVE  OrderedQueues'
    <2>1. \A x \in Side, k \in Key : WKeeps(x, k)
      BY <1>1, PushWKeeps
    <2>2. NoFrame /\ \A x \in Side, k \in Key : NKeeps(x, k) /\ UKeeps(x, k) /\ HKeeps(x, k)
      BY <1>1, StillKeeps, StillQuiet
    <2> QED BY <1>1, <2>1, <2>2, OrderedStep
  <1>2. ASSUME UNCHANGED <<wq, net, nextId, uq, helper>>,
               \A x \in Side, k \in Key : DataKeeps(x, k)
        PROVE  OrderedQueues'
    <2>1. NoFrame /\ \A x \in Side, k \in Key : /\ WKeeps(x, k) /\ NKeeps(x, k)
                                                /\ UKeeps(x, k) /\ HKeeps(x, k)
      BY <1>2, StillKeeps, StillQuiet
    <2> QED BY <1>2, <2>1, OrderedStep
  <1>3. ASSUME NEW n \in 0..MaxChans, Send(s, n) PROVE OrderedQueues'
    <2>1. UNCHANGED <<net, nextId, uq, helper, pend, flushed, arr, wbuf>> /\ PushW(s, Event(n))
      BY <1>3 DEF Send
    <2>2. Event(n) \in WiredEvent /\ \A k : Event(n) # Register(k) /\ ~About(Event(n), k)
      BY EventTypes, Kinds, Kinds2, NotAbout
    <2>3. \A x \in Side, k \in Key : DataKeeps(x, k)
      BY <2>1, DataSame
    <2> QED BY <1>1, <2>1, <2>2, <2>3
  <1>4. CASE SendNone(s) \/ Shutdown(s)
    <2>1. UNCHANGED <<net, nextId, uq, helper, pend, flushed, arr, wbuf>> /\ PushW(s, None)
      BY <1>4 DEF SendNone, Shutdown
    <2>2. None \in WiredEvent /\ \A k : None # Register(k) /\ ~About(None, k)
      BY EventTypes, Kinds, Kinds2, NotAbout
    <2>3. \A x \in Side, k \in Key : DataKeeps(x, k)
      BY <2>1, DataSame
    <2> QED BY <1>1, <2>1, <2>2, <2>3
  <1>5. CASE Abort(s)
    <2>1. /\ UNCHANGED <<net, nextId, uq, helper, pend, flushed, arr>>
          /\ wq' = [wq EXCEPT ![s] = <<>>]
          /\ wbuf' = [wbuf EXCEPT ![s] = [k \in Key |-> <<>>]]
      BY <1>5 DEF Abort
    <2>2. wq \in [Side -> Seq(WiredEvent)] /\ wbuf \in [Side -> [Key -> Seq(Nat \ {0})]]
      BY DEF TypeOK
    <2>3. ASSUME NEW x \in Side, NEW k \in Key PROVE WKeeps(x, k) /\ DataKeeps(x, k)
      <3>1. wq'[x] = wq[x] \/ wq'[x] = <<>>
        BY <2>1, <2>2
      <3>2. WKeeps(x, k)
        BY <3>1, CalmEmpty, CalmSame DEF WKeeps, Calm
      <3>3. wbuf'[x][k] = wbuf[x][k] \/ wbuf'[x][k] = <<>>
        BY <2>1, <2>2
      <3> QED BY <2>1, <3>2, <3>3 DEF DataKeeps
    <2>4. NoFrame /\ \A x \in Side, k \in Key : NKeeps(x, k) /\ UKeeps(x, k) /\ HKeeps(x, k)
      BY <2>1, StillKeeps, StillQuiet
    <2> QED BY <2>1, <2>3, <2>4, OrderedStep
  <1>6. CASE AbandonShutdown(s)
    <2>1. UNCHANGED <<wq, net, nextId, uq, helper, pend, flushed, arr, wbuf>>
      BY <1>6 DEF AbandonShutdown
    <2> QED BY <1>2, <2>1, DataSame
  <1>7. ASSUME NEW j \in Key, HalfStep(s, j) PROVE OrderedQueues'
    <2>1. UNCHANGED <<net, nextId, uq, helper, arr>>
      BY <1>7 DEF HalfStep, FlushBegin, FlushEnd, ShutWrite, DropWrite, DropRead, PollRead,
                  PollReadEof
    <2>2. /\ wh \in [Side -> [Key -> {"none", "open", "shut", "dropped"}]]
          /\ rh \in [Side -> [Key -> {"none", "open", "dropped"}]]
          /\ pend \in [Side -> [Key -> BOOLEAN]] /\ flushed \in [Side -> [Key -> Nat]]
          /\ wbuf \in [Side -> [Key -> Seq(Nat \ {0})]]
      BY DEF TypeOK
    <2>3. CASE FlushBegin(s, j)
      <3>1. /\ wq' = wq /\ RxAlive(s, j)
            /\ flushed' = [flushed EXCEPT ![s][j] = @ + 1]
            /\ pend' = [pend EXCEPT ![s][j] = TRUE]
            /\ wbuf' = [wbuf EXCEPT ![s][j] = Append(@, flushed'[s][j])]
        BY <2>3 DEF FlushBegin, FlushSend, SendData
      <3>2. ASSUME NEW x \in Side, NEW k \in Key PROVE DataKeeps(x, k)
        <4>1. CASE x = s /\ k = j
          BY <3>1, <4>1, KnownOpened DEF DataKeeps
        <4>2. CASE ~(x = s /\ k = j)
          <5>1. /\ pend'[x][k] = pend[x][k] /\ flushed'[x][k] = flushed[x][k]
                /\ wbuf'[x][k] = wbuf[x][k]
            BY <2>2, <3>1, <4>2
          <5> QED BY <2>1, <5>1, DataSame
        <4> QED BY <4>1, <4>2
      <3> QED BY <1>2, <2>1, <3>1, <3>2
    <2>4. CASE FlushEnd(s, j)
      <3>1. /\ UNCHANGED <<flushed, wbuf>> /\ PushW(s, Message(j)) /\ pend[s][j]
            /\ pend' = [pend EXCEPT ![s][j] = FALSE]
        BY <2>4 DEF FlushEnd, FlushSend, SendEvent
      <3>2. \A x \in Side, k \in Key : DataKeeps(x, k)
        BY <2>1, <2>2, <3>1 DEF DataKeeps
      <3>3. Message(j) \in WiredEvent
        BY EventTypes
      <3>4. ASSUME NEW k \in Key
            PROVE  Message(j) # Register(k) /\ (About(Message(j), k) => Opened(s, k))
        <4>1. Message(j) # Register(k)
          BY Kinds, Kinds2
        <4>2. About(Message(j), k) => j = k
          BY NotAbout
        <4> QED BY <3>1, <4>1, <4>2, KnownOpened
      <3> QED BY <1>1, <2>1, <3>1, <3>2, <3>3, <3>4
    <2>5. CASE ShutWrite(s, j) \/ DropWrite(s, j) \/ DropRead(s, j)
      <3>1. /\ UNCHANGED <<flushed, wbuf, pend>> /\ PushW(s, Drop(j, TRUE))
            /\ wh[s][j] # "none" \/ rh[s][j] # "none"
        BY <2>2, <2>5 DEF ShutWrite, DropWrite, DropRead
      <3>2. \A x \in Side, k \in Key : DataKeeps(x, k)
        BY <2>1, <3>1, DataSame
      <3>3. Drop(j, TRUE) \in WiredEvent
        BY EventTypes
      <3>4. ASSUME NEW k \in Key
            PROVE  Drop(j, TRUE) # Register(k) /\ (About(Drop(j, TRUE), k) => Opened(s, k))
        BY <3>1, DropAbout, KnownOpened
      <3> QED BY <1>1, <2>1, <3>1, <3>2, <3>3, <3>4
    <2>6. CASE PollRead(s, j) \/ PollReadEof(s, j)
      <3>1. UNCHANGED <<wq, pend, flushed, wbuf>>
        BY <2>6 DEF PollRead, PollReadEof
      <3> QED BY <1>2, <2>1, <3>1, DataSame
    <2> QED BY <1>7, <2>3, <2>4, <2>5, <2>6 DEF HalfStep
  <1> QED BY <1>3, <1>4, <1>5, <1>6, <1>7 DEF AppStep

\* What Break leaves of the frames on their way.
LEMMA BreakNet ==
  ASSUME TypeOK, Break, NEW x \in Side
  PROVE  \E n \in 0..Len(net[x]) : net'[x] = SubSeq(net[x], 1, n)
  <1>1. PICK keep \in [Side -> 0..(Len(net[Client]) + Len(net[Server]))] :
          /\ \A y \in Side : keep[y] <= Len(net[y])
          /\ net' = [y \in Side |-> SubSeq(net[y], 1, keep[y])]
    BY DEF Break
  <1>2. /\ net[Client] \in Seq(WiringEvent) /\ net[Server] \in Seq(WiringEvent)
        /\ net[x] \in Seq(WiringEvent)
    BY DEF TypeOK, Side
  <1>3. Len(net[Client]) \in Nat /\ Len(net[Server]) \in Nat /\ Len(net[x]) \in Nat
    BY <1>2
  <1>4. keep[x] \in 0..(Len(net[Client]) + Len(net[Server])) /\ keep[x] <= Len(net[x])
    BY <1>1
  <1>5. keep[x] \in 0..Len(net[x])
    BY <1>3, <1>4
  <1>6. net'[x] = SubSeq(net[x], 1, keep[x])
    BY <1>1
  <1> QED BY <1>5, <1>6

LEMMA OrderedBreak ==
  ASSUME TypeOK, OpenedOnce, OrderedQueues, Break
  PROVE  OrderedQueues'
  <1> USE DEF wiredVars, helperVars, halfVars
  <1>1. UNCHANGED <<wq, nextId, uq, helper, pend, flushed, arr, wbuf>>
    BY DEF Break
  <1>2. ASSUME NEW x \in Side
        PROVE  /\ \A id \in WireId : NoneAdded(net[x], net'[x], OpenFrame(id))
               /\ \A e, k : Calm(net[x], net'[x], e, k)
    <2>1. PICK n \in 0..Len(net[x]) : net'[x] = SubSeq(net[x], 1, n)
      BY BreakNet
    <2>2. net[x] \in Seq(WiringEvent)
      BY DEF TypeOK
    <2> QED BY <2>1, <2>2, PrefixAdds, CalmPrefix
  <1>3. NoFrame
    BY <1>2 DEF NoFrame
  <1>4. ASSUME NEW x \in Side, NEW k \in Key PROVE NKeeps(x, k)
    BY <1>2, PeerSide DEF NKeeps, Calm
  <1>5. \A x \in Side, k \in Key : /\ WKeeps(x, k) /\ UKeeps(x, k) /\ HKeeps(x, k)
                                   /\ DataKeeps(x, k)
    BY <1>1, StillKeeps, DataSame
  <1> QED BY <1>1, <1>3, <1>4, <1>5, OrderedStep

-----------------------------------------------------------------------------
(* Steps that open a stream.                                                *)

LEMMA OpeningStep ==
  ASSUME TypeOK, OrderedQueues, NEW s \in Side, NEW j \in Key,
         ~Opened(s, j), Opened(s, j)',
         \A x \in Side, k \in Key : /\ Opened(x, k) => Opened(x, k)'
                                    /\ Allotted(x, k) => Allotted(x, k)'
                                    /\ NKeeps(x, k)
                                    /\ x # s \/ k # j => WKeeps(x, k),
         Leads(wq'[s], Register(j), j), PushU(s, Register(j)),
         UNCHANGED <<helper, pend, flushed, arr, wbuf>>
  PROVE  OrderedQueues'
  <1>1. /\ Register(j) \in UnwiredEvent
        /\ \A k : k # j => Register(j) # Register(k) /\ ~About(Register(j), k)
    <2>1. ASSUME NEW k, k # j PROVE Register(j) # Register(k) /\ ~About(Register(j), k)
      BY <2>1, NotAbout, Kinds2
    <2> QED BY <2>1, EventTypes
  <1>2. ASSUME NEW x \in Side, NEW k \in Key, x # s \/ k # j PROVE OrderedKey(x, k)'
    <2>1. OrderedKey(x, k)
      BY DEF OrderedQueues
    <2>2. helper'[x] \subseteq helper[x]
      OBVIOUS
    <2>3. UKeeps(x, k) /\ HKeeps(x, k)
      BY <1>1, <1>2, <2>2, PushUKeeps
    <2>4. DataKeeps(x, k)
      BY DataSame
    <2> QED BY <1>2, <2>1, <2>3, <2>4, KeyStep
  <1>3. OrderedKey(s, j)'
    <2>1. OrderedKey(s, j) /\ Untouched(s, j)
      BY DEF OrderedQueues, OrderedKey
    <2>2. uq \in [Side -> Seq(UnwiredEvent)] /\ uq[s] \in Seq(UnwiredEvent)
      BY DEF TypeOK
    <2>3. uq'[s] = uq[s] \/ uq'[s] = Append(uq[s], Register(j))
      BY <2>2 DEF PushU, Pushed
    <2>4. Leads(uq'[s], Register(j), j)
      BY <1>1, <2>1, <2>2, <2>3, CalmAppend DEF OrderedKey, Untouched
    <2>5. j \notin helper'[s]
      BY <2>1 DEF Untouched
    <2>6. /\ ~j[2] => Leads(net'[Peer(s)], OpenFrame(j[1]), j)
          /\ Mentions(net'[Peer(s)], j) => Allotted(s, j)'
      BY <2>1 DEF OrderedKey, NKeeps
    <2> QED BY <2>4, <2>5, <2>6 DEF OrderedKey
  <1> QED BY <1>2, <1>3 DEF OrderedQueues

\* The reader takes the id of a stream that is not open on its side, and then is.
LEMMA ReadsId ==
  ASSUME TypeOK, OpenedOnce, NEW s \in Side, ReadOpen(s)
  PROVE  \E id \in WireId :
           /\ Reading(s, "open") /\ PushW(s, Register(Remote(id))) /\ PushU(s, Register(Remote(id)))
           /\ wh' = [wh EXCEPT ![s][Remote(id)] = "open"]
           /\ rh' = [rh EXCEPT ![s][Remote(id)] = "open"]
           /\ UNCHANGED <<nextId, helper, pend, flushed, arr, wbuf>>
           /\ net[Peer(s)] # <<>> /\ Head(net[Peer(s)]) = OpenFrame(id)
           /\ Remote(id) \in Key /\ ~Opened(s, Remote(id)) /\ Opened(s, Remote(id))'
  <1> DEFINE p == Peer(s)
  <1>1. Reading(s, "open")
    BY DEF ReadOpen
  <1>2. /\ net[p] # <<>> /\ Head(net[p]) \in WiringEvent /\ Head(net[p]).t = "open"
        /\ Head(net[p]).id \in WireId
    BY <1>1, HeadNet
  <1> PICK id \in WireId : id = Head(net[p]).id
    BY <1>2
  <1>3. Head(net[p]) = OpenFrame(id)
    BY <1>2 DEF WiringEvent, EventFrame, OpenFrame
  <1>4. Remote(id) \in Key /\ Remote(id)[1] = id /\ Remote(id)[2] = FALSE
    BY DEF Remote, Key
  <1>5. p \in Side /\ net[p] \in Seq(WiringEvent) /\ net'[p] = Tail(net[p])
    BY <1>1, PeerSide DEF TypeOK, Reading
  <1>6. /\ PushW(s, Register(Remote(id))) /\ PushU(s, Register(Remote(id)))
        /\ wh' = [wh EXCEPT ![s][Remote(id)] = "open"]
        /\ rh' = [rh EXCEPT ![s][Remote(id)] = "open"]
        /\ UNCHANGED <<nextId, helper, pend, flushed, arr, wbuf>>
    BY DEF ReadOpen
  <1> HIDE DEF p
  <1>7. Queued(net[p], OpenFrame(id)) /\ AnnouncedOnce(p, id)
    <2>1. Queued(net[p], OpenFrame(id))
      BY <1>2, <1>3, <1>5, TailAdds
    <2> QED BY <1>5, <2>1 DEF OpenedOnce
  <1>8. ~Opened(s, Remote(id))
    BY <1>4, <1>7 DEF Opened, p
  <1>9. Opened(s, Remote(id))'
    <2>1. ~Queued(net'[p], OpenFrame(id))
      BY <1>2, <1>3, <1>5, <1>7, TailAdds DEF AnnouncedOnce
    <2>2. id <= nextId'[p]
      BY <1>6, <1>7 DEF AnnouncedOnce
    <2> QED BY <1>4, <2>1, <2>2 DEF Opened, p
  <1> QED BY <1>1, <1>2, <1>3, <1>4, <1>6, <1>8, <1>9 DEF p

LEMMA OrderedOpen ==
  ASSUME TypeOK, OpenedOnce, OrderedQueues, NEW s \in Side, ReadOpen(s)
  PROVE  OrderedQueues'
  <1>1. PICK id \in WireId :
          /\ Reading(s, "open") /\ PushW(s, Register(Remote(id))) /\ PushU(s, Register(Remote(id)))
          /\ UNCHANGED <<nextId, helper, pend, flushed, arr, wbuf>>
          /\ Remote(id) \in Key /\ ~Opened(s, Remote(id)) /\ Opened(s, Remote(id))'
    BY ReadsId
  <1> DEFINE j == Remote(id)
  <1>2. j \in Key /\ ~Opened(s, j) /\ Opened(s, j)' /\ PushW(s, Register(j)) /\ PushU(s, Register(j))
    BY <1>1
  <1> HIDE DEF j
  <1>3. NoFrame /\ \A x \in Side, k \in Key : NKeeps(x, k)
    BY <1>1, ReadHarmless, ReadingKeeps
  <1>4. ASSUME NEW x \in Side, NEW k \in Key
        PROVE  (Opened(x, k) => Opened(x, k)') /\ (Allotted(x, k) => Allotted(x, k)')
    <2>1. Opened(x, k) => Opened(x, k)'
      BY <1>1, <1>3, StaysOpened
    <2>2. Allotted(x, k) => Allotted(x, k)'
      BY <1>1 DEF Allotted
    <2> QED BY <2>1, <2>2
  <1>5. Register(j) \in WiredEvent
    BY <1>2, EventTypes
  <1>6. ASSUME NEW x \in Side, NEW k \in Key, x # s \/ k # j PROVE WKeeps(x, k)
    <2>1. k # j => Register(j) # Register(k) /\ ~About(Register(j), k)
      BY NotAbout, Kinds2
    <2> QED BY <1>2, <1>5, <1>6, <2>1, PushWKeeps
  <1>7. Leads(wq'[s], Register(j), j)
    <2>1. OrderedKey(s, j) /\ Untouched(s, j)
      BY <1>2 DEF OrderedQueues, OrderedKey
    <2>2. wq \in [Side -> Seq(WiredEvent)] /\ wq[s] \in Seq(WiredEvent)
      BY DEF TypeOK
    <2>3. wq'[s] = wq[s] \/ wq'[s] = Append(wq[s], Register(j))
      BY <1>2, <2>2 DEF PushW, Pushed
    <2>4. ~Mentions(wq[s], j) /\ Leads(wq[s], Register(j), j)
      BY <2>1 DEF OrderedKey, Untouched
    <2>5. Leads(Append(wq[s], Register(j)), Register(j), j)
      BY <1>5, <2>2, <2>4, CalmAppend
    <2> QED BY <2>3, <2>4, <2>5
  <1> QED BY <1>1, <1>2, <1>3, <1>4, <1>6, <1>7, OpeningStep

\* connect() allots an id: its frame, if it goes out, leads what the peer will be told.
LEMMA AllotsOrdered ==
  ASSUME TypeOK, TypeOK', OpenedOnce, OrderedQueues, NEW s \in Side, NEW id \in WireId,
         Allots(s, id), PushU(s, Register(Local(id))),
         UNCHANGED <<helper, pend, flushed, arr, wbuf>>,
         \A x \in Side, k \in Key :
           /\ x # s \/ k # Local(id) => WKeeps(x, k)
           /\ Leads(wq[x], Register(k), k) => Leads(wq'[x], Register(k), k)
  PROVE  OrderedQueues'
  <1> DEFINE j == Local(id)
  <1>1. /\ j \in Key /\ Unknown(s, j) /\ Opened(s, j)' /\ nextId'[s] = id
        /\ ~(id <= nextId[s]) /\ nextId[s] \in Nat
    BY Fresh
  <1>2. ~Opened(s, j)
    BY <1>1 DEF Opened, Local
  <1>3. ASSUME NEW x \in Side, NEW k \in Key
        PROVE  (Opened(x, k) => Opened(x, k)') /\ (Allotted(x, k) => Allotted(x, k)')
    <2>1. /\ nextId[x] \in Nat /\ nextId'[x] \in Nat /\ nextId[x] <= nextId'[x]
          /\ nextId[Peer(x)] \in Nat /\ nextId'[Peer(x)] \in Nat
          /\ nextId[Peer(x)] <= nextId'[Peer(x)] /\ k[1] \in Nat
      <3>1. Peer(x) \in Side /\ k[1] \in Nat /\ nextId[x] <= nextId'[x]
        BY PeerSide, MirrorKey, AllotsId
      <3>2. nextId[Peer(x)] <= nextId'[Peer(x)]
        BY <3>1, AllotsId
      <3> QED BY <3>1, <3>2, Bounds DEF TypeOK
    <2>2. Allotted(x, k) => Allotted(x, k)'
      BY <2>1 DEF Allotted
    <2> QED BY <2>2, AllotsOpened
  <1>4. ASSUME NEW x \in Side, NEW k \in Key PROVE NKeeps(x, k)
    <2>1. Peer(x) \in Side /\ Peer(Peer(x)) = x
      BY PeerSide
    <2>2. net \in [Side -> Seq(WiringEvent)] /\ net[Peer(x)] \in Seq(WiringEvent)
      BY <2>1 DEF TypeOK
    <2>3. OpenFrame(id) \in WiringEvent /\ ~About(OpenFrame(id), k)
      BY EventTypes, NotAbout
    <2>4. \/ net'[Peer(x)] = net[Peer(x)]
          \/ Peer(x) = s /\ net'[Peer(x)] = Append(net[Peer(x)], OpenFrame(id))
      BY <2>1, <2>2 DEF Allots
    <2>5. CASE Peer(x) = s /\ net'[Peer(x)] = Append(net[Peer(x)], OpenFrame(id))
      <3>1. Mentions(net'[Peer(x)], k) => Mentions(net[Peer(x)], k)
        BY <2>2, <2>3, <2>5, CalmAppend
      <3>2. ASSUME ~k[2], Leads(net[Peer(x)], OpenFrame(k[1]), k)
            PROVE  Leads(net'[Peer(x)], OpenFrame(k[1]), k)
        <4>1. CASE k[1] = id
          <5>1. ~Allotted(x, k)
            BY <1>1, <2>5, <3>2, <4>1 DEF Allotted
          <5>2. ~Mentions(net[Peer(x)], k)
            BY <5>1 DEF OrderedQueues, OrderedKey
          <5> QED BY <2>2, <2>3, <2>5, <5>2, CalmAppend
        <4>2. CASE k[1] # id
          <5>1. OpenFrame(id) # OpenFrame(k[1])
            BY <4>2, Kinds2
          <5> QED BY <2>2, <2>3, <2>5, <3>2, <5>1, CalmAppend
        <4> QED BY <4>1, <4>2
      <3> QED BY <3>1, <3>2 DEF NKeeps
    <2> QED BY <2>4, <2>5, StillKeeps
  <1>5. Leads(wq'[s], Register(j), j)
    BY <1>1 DEF OrderedQueues, OrderedKey
  <1>6. PushU(s, Register(j)) /\ \A x \in Side, k \in Key : x # s \/ k # j => WKeeps(x, k)
    OBVIOUS
  <1> HIDE DEF j
  <1> QED BY <1>1, <1>2, <1>3, <1>4, <1>5, <1>6, OpeningStep

LEMMA OrderedConnect ==
  ASSUME TypeOK, TypeOK', OpenedOnce, OrderedQueues, NEW s \in Side, WiredConnect(s)
  PROVE  OrderedQueues'
  <1>1. nextId[s] + 1 \in WireId
    BY NextIdType DEF WiredConnect
  <1> PICK id \in WireId : id = nextId[s] + 1
    BY <1>1
  <1>2. Allots(s, id)
    BY DEF WiredConnect, Connected, Allots
  <1>3. /\ PushU(s, Register(Local(id))) /\ UNCHANGED <<helper, pend, flushed, arr, wbuf>>
        /\ wq' = [wq EXCEPT ![s][1].chans = @ - 1] /\ WiredAt(s, "event")
    BY DEF WiredConnect, Connected
  <1>4. wq \in [Side -> Seq(WiredEvent)]
    BY DEF TypeOK
  <1>5. /\ wq[s] \in Seq(WiredEvent) /\ wq[s] # <<>> /\ wq[s][1].t = "event"
        /\ wq[s][1] \in WiredEvent
    BY <1>3, HeadW
  <1> DEFINE a == [wq[s][1] EXCEPT !.chans = @ - 1]
  <1>6. a.t = "event"
    <2>1. wq[s][1] \in [t : {"event"}, chans : 0..MaxChans]
      BY <1>5 DEF WiredEvent, None
    <2> QED BY <2>1
  <1>7. wq'[s] = [wq[s] EXCEPT ![1] = a]
    BY <1>3, <1>4, <1>5
  <1> HIDE DEF a
  <1>8. ASSUME NEW x \in Side, NEW k \in Key PROVE WKeeps(x, k)
    <2>1. CASE x # s
      <3>1. wq'[x] = wq[x]
        BY <1>3, <1>4, <2>1
      <3> QED BY <3>1, StillKeeps
    <2>2. CASE x = s
      <3>1. a # Register(k) /\ ~About(a, k)
        BY <1>6, Kinds DEF About
      <3>2. Calm(wq[s], [wq[s] EXCEPT ![1] = a], Register(k), k)
        BY <1>5, <3>1, CalmHead
      <3> QED BY <1>7, <2>2, <3>2 DEF WKeeps, Calm
    <2> QED BY <2>1, <2>2
  <1> QED BY <1>2, <1>3, <1>8, AllotsOrdered DEF WKeeps

LEMMA OrderedConnectFails ==
  ASSUME TypeOK, TypeOK', OpenedOnce, OrderedQueues, NEW s \in Side, WiredConnectFails(s)
  PROVE  OrderedQueues'
  <1> USE DEF netVars
  <1>1. nextId[s] + 1 \in WireId
    BY NextIdType DEF WiredConnectFails
  <1> PICK id \in WireId : id = nextId[s] + 1
    BY <1>1
  <1> DEFINE j == Local(id)
             popped == [wq EXCEPT ![s] = Tail(@)]
             d == Drop(j, TRUE)
             q1 == Tail(wq[s])
             q2 == Append(q1, d)
             q3 == Append(q2, d)
  <1>2. Allots(s, id)
    BY DEF WiredConnectFails, Connected, Allots
  <1>3. /\ PushU(s, Register(j)) /\ UNCHANGED <<helper, pend, flushed, arr, wbuf>>
        /\ wq' = Pushed(Pushed(popped, wstate, s, d), wstate, s, d)
        /\ wq[s] # <<>>
    BY DEF WiredConnectFails, Connected, WiredAt
  <1>4. wq \in [Side -> Seq(WiredEvent)] /\ wq[s] \in Seq(WiredEvent)
    BY DEF TypeOK
  <1>5. d \in WiredEvent
    <2>1. j \in Key
      BY EventTypes
    <2> HIDE DEF j
    <2> QED BY <2>1, EventTypes
  <1>6. q1 \in Seq(WiredEvent) /\ q2 \in Seq(WiredEvent)
    <2>1. q1 \in Seq(WiredEvent)
      BY <1>3, <1>4
    <2> HIDE DEF q1, d
    <2> QED BY <1>5, <2>1
  <1>7. wq'[s] \in {q1, q3}
    <2> HIDE DEF d
    <2>1. popped \in [Side -> Seq(WiredEvent)] /\ popped[s] = q1
      BY <1>3, <1>4, <1>6
    <2> HIDE DEF popped, q1
    <2> QED BY <1>3, <2>1 DEF Pushed
  <1>8. ASSUME NEW x \in Side, x # s PROVE wq'[x] = wq[x]
    BY <1>3, <1>4, <1>8 DEF Pushed
  <1> HIDE DEF popped
  <1>9. ASSUME NEW k
        PROVE  /\ Leads(wq[s], Register(k), k) => Leads(wq'[s], Register(k), k)
               /\ k # j /\ Mentions(wq'[s], k) => Mentions(wq[s], k)
    <2>1. d # Register(k) /\ (About(d, k) => k = j)
      BY DropAbout
    <2> HIDE DEF d, j
    <2>2. Calm(wq[s], q1, Register(k), k)
      BY <1>3, <1>4, CalmTail
    <2>3. /\ Leads(q1, Register(k), k) => Leads(q2, Register(k), k)
          /\ Mentions(q2, k) => Mentions(q1, k) \/ About(d, k)
      BY <1>5, <1>6, <2>1, CalmAppend
    <2>4. /\ Leads(q2, Register(k), k) => Leads(q3, Register(k), k)
          /\ Mentions(q3, k) => Mentions(q2, k) \/ About(d, k)
      BY <1>5, <1>6, <2>1, CalmAppend
    <2> HIDE DEF q1, q2, q3
    <2> QED BY <1>7, <2>1, <2>2, <2>3, <2>4 DEF Calm
  <1> HIDE DEF j
  <1>10. ASSUME NEW x \in Side, NEW k \in Key
         PROVE  /\ x # s \/ k # j => WKeeps(x, k)
                /\ Leads(wq[x], Register(k), k) => Leads(wq'[x], Register(k), k)
    BY <1>8, <1>9 DEF WKeeps
  <1>11. /\ PushU(s, Register(Local(id)))
         /\ \A x \in Side, k \in Key :
              /\ x # s \/ k # Local(id) => WKeeps(x, k)
              /\ Leads(wq[x], Register(k), k) => Leads(wq'[x], Register(k), k)
    BY <1>3, <1>10 DEF j
  <1> QED BY <1>2, <1>3, <1>11, AllotsOrdered

-----------------------------------------------------------------------------
(* The theorem.                                                             *)

LEMMA OrderedInit == ASSUME Init PROVE OrderedQueues
  <1> SUFFICES ASSUME NEW s \in Side, NEW k \in Key PROVE OrderedKey(s, k)
    BY DEF OrderedQueues
  <1>1. Peer(s) \in Side
    BY PeerSide
  <1>2. wq[s] = <<>> /\ uq[s] = <<>> /\ net[Peer(s)] = <<>>
    BY <1>1 DEF Init
  <1>3. \A e : /\ ~Mentions(<<>>, k) /\ Leads(<<>>, e, k) /\ ~Queued(<<>>, e)
    BY DEF Mentions, Leads, Queued
  <1>4. /\ helper[s] = {} /\ pend[s][k] = FALSE /\ flushed[s][k] = 0
        /\ wbuf[s][k] = <<>> /\ arr[s][k] = <<>>
    BY DEF Init, PerKey
  <1>5. Untouched(s, k)
    BY <1>2, <1>3, <1>4 DEF Untouched
  <1> QED BY <1>2, <1>3, <1>4, <1>5 DEF OrderedKey

LEMMA OrderedNext ==
  ASSUME TypeOK, TypeOK', OpenedOnce, OrderedQueues, [Next]_vars
  PROVE  OrderedQueues'
  <1>1. CASE UNCHANGED vars
    <2>1. UNCHANGED <<wq, uq, net, nextId, helper, pend, flushed, arr, wbuf>>
      BY <1>1 DEF vars, wiredVars, helperVars, netVars, halfVars
    <2>2. NoFrame /\ \A x \in Side, k \in Key : /\ WKeeps(x, k) /\ UKeeps(x, k) /\ NKeeps(x, k)
                                                /\ HKeeps(x, k) /\ DataKeeps(x, k)
      BY <2>1, StillKeeps, StillQuiet, DataSame
    <2> QED BY <2>1, <2>2, OrderedStep
  <1>2. ASSUME NEW s \in Side, WiredStep(s) PROVE OrderedQueues'
    BY <1>2, OrderedWired, OrderedMessage, OrderedDrop, OrderedConnect, OrderedConnectFails
       DEF WiredStep
  <1>3. ASSUME NEW s \in Side, ReaderStep(s) PROVE OrderedQueues'
    BY <1>3, OrderedReader, OrderedOpen DEF ReaderStep
  <1> QED BY <1>1, <1>2, <1>3, OrderedHelper, OrderedApp, OrderedBreak DEF Next

\* Every queue is in the order OrderedQueues asks for: nothing of a stream is on a side
\* before connect() of wired.rs or of unwired.rs has registered it there.
THEOREM QueuesOrdered == Spec => []OrderedQueues
  <1>1. Init => OrderedQueues
    BY OrderedInit
  <1>2. TypeOK /\ TypeOK' /\ OpenedOnce /\ OrderedQueues /\ [Next]_vars => OrderedQueues'
    BY OrderedNext
  <1> QED BY <1>1, <1>2, TypeCorrect, StreamsOpenedOnce, PTL DEF Spec

\* The registration of a stream stands ahead of its messages and drops in the W queue and
\* in the U queue, and never comes twice: the tasks take no event of a stream for one of a
\* stream long gone.
THEOREM RegisteredFirst == Spec => []RegisterFirst
  <1>1. TypeOK /\ OpenedOnce /\ OrderedQueues => RegisterFirst
    <2> SUFFICES ASSUME TypeOK, OpenedOnce, OrderedQueues, NEW s \in Side, NEW k \in Key
                 PROVE  /\ \A j \in DOMAIN wq[s] : wq[s][j] = Register(k) =>
                             /\ k \notin wired[s]
                             /\ \A i \in DOMAIN wq[s] :
                                  i # j /\ wq[s][i].t # "none" /\ wq[s][i].t # "event"
                                    /\ wq[s][i].k = k => i > j
                        /\ \A j \in DOMAIN uq[s] : uq[s][j] = Register(k) =>
                             /\ k \notin helper[s]
                             /\ \A i \in DOMAIN uq[s] :
                                  i # j /\ uq[s][i].t # "none" /\ uq[s][i].k = k => i > j
      BY DEF RegisterFirst
    <2>1. EntersOnce(s, k) /\ OrderedKey(s, k)
      BY DEF OpenedOnce, OrderedQueues
    <2>2. wq[s] \in Seq(WiredEvent) /\ uq[s] \in Seq(UnwiredEvent)
      BY DEF TypeOK
    <2>3. \A e \in WiredEvent : e.t # "none" /\ e.t # "event" /\ e.k = k => About(e, k)
      BY DEF WiredEvent, None, About
    <2>4. \A e \in UnwiredEvent : e.t # "none" /\ e.k = k => About(e, k)
      BY DEF UnwiredEvent, None, About
    <2>5. ASSUME NEW j \in DOMAIN wq[s], wq[s][j] = Register(k),
                 NEW i \in DOMAIN wq[s], i # j, wq[s][i].t # "none", wq[s][i].t # "event",
                 wq[s][i].k = k
          PROVE  i > j
      <3>1. About(wq[s][i], k)
        BY <2>2, <2>3, <2>5
      <3>2. i \in Nat /\ j \in Nat /\ j < i
        BY <2>1, <2>2, <2>5, <3>1 DEF OrderedKey, Leads
      <3> QED BY <3>2
    <2>6. ASSUME NEW j \in DOMAIN uq[s], uq[s][j] = Register(k),
                 NEW i \in DOMAIN uq[s], i # j, uq[s][i].t # "none", uq[s][i].k = k
          PROVE  i > j
      <3>1. About(uq[s][i], k)
        BY <2>2, <2>4, <2>6
      <3>2. i \in Nat /\ j \in Nat /\ j < i
        BY <2>1, <2>2, <2>6, <3>1 DEF OrderedKey, Leads
      <3> QED BY <3>2
    <2>7. /\ Queued(wq[s], Register(k)) => k \notin wired[s]
          /\ Queued(uq[s], Register(k)) => k \notin helper[s]
      BY <2>1 DEF EntersOnce, OrderedKey
    <2> QED BY <2>5, <2>6, <2>7 DEF Queued
  <1> QED BY <1>1, TypeCorrect, StreamsOpenedOnce, QueuesOrdered, PTL

=============================================================================
