-------------------------- MODULE WiredPathProofs --------------------------
(* Proofs about the path of the messages of a stream in Wired: what is in    *)
(* the writer's channel, on the transport and in the helper's queue goes on  *)
(* where the read half has got to, without a gap and in order.  With it,     *)
(* every stream implements StreamPipe in each of its two directions.         *)
EXTENDS WiredMessageProofs, WellFoundedInduction

-----------------------------------------------------------------------------
(* The data a queue carries.                                                *)

LEMMA CarriesEmpty ==
  ASSUME NEW k, NEW a \in Nat, NEW b \in Nat, a <= b
  PROVE  Carries(<<>>, k, a, b) <=> a = b
  <1>1. DataOf(<<>>, k) = {}
    BY DEF DataOf
  <1>2. {<<>>[i].n : i \in DataOf(<<>>, k)} = {}
    BY <1>1
  <1>3. (a + 1)..b = {} <=> a = b
    <2>1. a # b => a + 1 \in (a + 1)..b
      OBVIOUS
    <2>2. a = b => (a + 1)..b = {}
      OBVIOUS
    <2> QED BY <2>1, <2>2
  <1> QED BY <1>1, <1>2, <1>3 DEF Carries

\* Membership in what a queue carries.
LEMMA CarriesMember ==
  ASSUME NEW q, NEW k, NEW a, NEW b, Carries(q, k, a, b)
  PROVE  /\ \A i \in DataOf(q, k) : q[i].n \in (a + 1)..b
         /\ \A v \in (a + 1)..b : \E i \in DataOf(q, k) : q[i].n = v
         /\ \A i, j \in DataOf(q, k) : i < j => q[i].n < q[j].n
  BY DEF Carries

LEMMA CarriesIntro ==
  ASSUME NEW q, NEW k, NEW a, NEW b,
         \A i \in DataOf(q, k) : q[i].n \in (a + 1)..b,
         \A v \in (a + 1)..b : \E i \in DataOf(q, k) : q[i].n = v,
         \A i, j \in DataOf(q, k) : i < j => q[i].n < q[j].n
  PROVE  Carries(q, k, a, b)
  BY DEF Carries

\* Entry e is a message of stream k.
IsData(e, k) == e.t = "data" /\ e.k = k

LEMMA CarriesAppend ==
  ASSUME NEW S, NEW q \in Seq(S), NEW e \in S, NEW k, NEW a \in Nat, NEW b \in Nat,
         Carries(q, k, a, b)
  PROVE  /\ ~IsData(e, k) => Carries(Append(q, e), k, a, b)
         /\ IsData(e, k) /\ e.n = b + 1 /\ a <= b => Carries(Append(q, e), k, a, b + 1)
  <1> DEFINE r == Append(q, e)
             n == Len(q) + 1
  <1>1. /\ DOMAIN r = DOMAIN q \cup {n} /\ n \notin DOMAIN q /\ r[n] = e
        /\ \A i \in DOMAIN q : r[i] = q[i] /\ i \in Nat /\ i < n
        /\ n \in Nat
    OBVIOUS
  <1> HIDE DEF r, n
  <1>2. ASSUME ~IsData(e, k) PROVE Carries(r, k, a, b)
    <2>1. DataOf(r, k) = DataOf(q, k)
      BY <1>1, <1>2 DEF DataOf, IsData
    <2>2. \A i \in DataOf(q, k) : r[i] = q[i]
      BY <1>1 DEF DataOf
    <2> QED BY <2>1, <2>2 DEF Carries
  <1>3. ASSUME IsData(e, k), e.n = b + 1, a <= b PROVE Carries(r, k, a, b + 1)
    <2>1. DataOf(r, k) = DataOf(q, k) \cup {n}
      BY <1>1, <1>3 DEF DataOf, IsData
    <2>2. \A i \in DataOf(q, k) : r[i] = q[i] /\ i < n /\ i \in Nat
      BY <1>1 DEF DataOf
    <2>3. \A v : v \in (a + 1)..(b + 1) <=> v \in (a + 1)..b \/ v = b + 1
      BY <1>3
    <2>4. ASSUME NEW i \in DataOf(r, k) PROVE r[i].n \in (a + 1)..(b + 1)
      BY <1>1, <1>3, <2>1, <2>2, <2>3, CarriesMember
    <2>5. ASSUME NEW v \in (a + 1)..(b + 1) PROVE \E i \in DataOf(r, k) : r[i].n = v
      <3>1. CASE v = b + 1
        <4>1. n \in DataOf(r, k) /\ r[n].n = v
          BY <1>1, <1>3, <2>1, <3>1
        <4> QED BY <4>1
      <3>2. CASE v \in (a + 1)..b
        <4>1. PICK i \in DataOf(q, k) : q[i].n = v
          BY <3>2, CarriesMember
        <4>2. i \in DataOf(r, k) /\ r[i].n = v
          BY <2>1, <2>2, <4>1
        <4> QED BY <4>2
      <3> QED BY <2>3, <3>1, <3>2
    <2>6. ASSUME NEW i \in DataOf(r, k), NEW j \in DataOf(r, k), i < j
          PROVE  r[i].n < r[j].n
      <3>1. i \in DataOf(q, k)
        BY <1>1, <2>1, <2>2, <2>6
      <3>2. CASE j \in DataOf(q, k)
        BY <2>2, <2>6, <3>1, <3>2, CarriesMember
      <3>3. CASE j = n
        <4>1. q[i].n \in (a + 1)..b
          BY <3>1, CarriesMember
        <4>2. q[i].n < b + 1
          BY <4>1
        <4>3. r[i] = q[i] /\ r[j].n = b + 1
          BY <1>1, <1>3, <2>2, <3>1, <3>3
        <4> QED BY <4>2, <4>3
      <3> QED BY <2>1, <3>2, <3>3
    <2> QED BY <2>4, <2>5, <2>6, CarriesIntro
  <1> QED BY <1>2, <1>3 DEF r

LEMMA CarriesTail ==
  ASSUME NEW S, NEW q \in Seq(S), q # <<>>, NEW k, NEW a \in Nat, NEW b \in Nat,
         Carries(q, k, a, b)
  PROVE  /\ ~IsData(Head(q), k) => Carries(Tail(q), k, a, b)
         /\ IsData(Head(q), k) => /\ Head(q).n = a + 1 /\ a + 1 <= b
                                  /\ Carries(Tail(q), k, a + 1, b)
  <1> DEFINE r == Tail(q)
  <1>1. /\ 1 \in DOMAIN q /\ Head(q) = q[1]
        /\ \A i \in DOMAIN r : i + 1 \in DOMAIN q /\ r[i] = q[i + 1] /\ i \in Nat /\ i >= 1
        /\ \A i \in DOMAIN q : i \in Nat /\ (i = 1 \/ (i - 1 \in DOMAIN r /\ r[i - 1] = q[i] /\ i > 1))
    OBVIOUS
  <1> HIDE DEF r
  <1>2. /\ \A i \in DataOf(r, k) : i + 1 \in DataOf(q, k) /\ r[i] = q[i + 1] /\ i \in Nat /\ i >= 1
        /\ \A i \in DataOf(q, k) : i \in Nat /\ (i = 1 \/ (i - 1 \in DataOf(r, k) /\ r[i - 1] = q[i]))
        /\ 1 \in DataOf(q, k) <=> IsData(Head(q), k)
    BY <1>1 DEF DataOf, IsData
  <1>3. ASSUME NEW i \in DataOf(r, k), NEW j \in DataOf(r, k), i < j
        PROVE  r[i].n < r[j].n
    <2>1. /\ i + 1 \in DataOf(q, k) /\ j + 1 \in DataOf(q, k) /\ r[i] = q[i + 1] /\ r[j] = q[j + 1]
          /\ i + 1 < j + 1
      BY <1>2, <1>3
    <2>2. q[i + 1].n < q[j + 1].n
      BY <2>1, CarriesMember
    <2> QED BY <2>1, <2>2
  <1>4. ASSUME ~IsData(Head(q), k) PROVE Carries(r, k, a, b)
    <2>1. \A i \in DataOf(r, k) : r[i].n \in (a + 1)..b
      BY <1>2, CarriesMember
    <2>2. ASSUME NEW v \in (a + 1)..b PROVE \E i \in DataOf(r, k) : r[i].n = v
      <3>1. PICK i \in DataOf(q, k) : q[i].n = v
        BY CarriesMember
      <3>2. i # 1
        BY <1>2, <1>4
      <3> QED BY <1>2, <3>1, <3>2
    <2> QED BY <1>3, <2>1, <2>2, CarriesIntro
  <1>5. ASSUME IsData(Head(q), k)
        PROVE  Head(q).n = a + 1 /\ a + 1 <= b /\ Carries(r, k, a + 1, b)
    <2>1. 1 \in DataOf(q, k)
      BY <1>2, <1>5
    <2>2. q[1].n \in (a + 1)..b
      BY <2>1, CarriesMember
    <2>3. a + 1 <= b
      BY <2>2
    <2>4. a + 1 \in (a + 1)..b
      BY <2>3
    <2>5. PICK j \in DataOf(q, k) : q[j].n = a + 1
      BY <2>4, CarriesMember
    <2>6. q[1].n = a + 1
      <3>1. j \in Nat /\ (j = 1 \/ 1 < j)
        BY <1>1, <1>2
      <3>2. ASSUME 1 < j PROVE q[1].n < a + 1
        BY <2>1, <2>5, <3>2, CarriesMember
      <3> QED BY <2>2, <2>5, <3>1, <3>2
    <2>7. ASSUME NEW i \in DataOf(r, k) PROVE r[i].n \in ((a + 1) + 1)..b
      <3>1. i + 1 \in DataOf(q, k) /\ r[i] = q[i + 1] /\ 1 < i + 1
        BY <1>2
      <3>2. q[i + 1].n \in (a + 1)..b /\ a + 1 < q[i + 1].n
        BY <2>1, <2>6, <3>1, CarriesMember
      <3> QED BY <3>1, <3>2
    <2>8. ASSUME NEW v \in ((a + 1) + 1)..b PROVE \E i \in DataOf(r, k) : r[i].n = v
      <3>1. v \in (a + 1)..b /\ v # a + 1
        OBVIOUS
      <3>2. PICK i \in DataOf(q, k) : q[i].n = v
        BY <3>1, CarriesMember
      <3>3. i # 1
        BY <2>6, <3>1, <3>2
      <3> QED BY <1>2, <3>2, <3>3
    <2>9. Carries(r, k, a + 1, b)
      BY <1>3, <2>7, <2>8, CarriesIntro
    <2> QED BY <1>1, <2>3, <2>6, <2>9
  <1> QED BY <1>4, <1>5 DEF r

LEMMA Least ==
  ASSUME NEW T, T \subseteq Nat, T # {}
  PROVE  \E x \in T : \A y \in T : x <= y
  <1>1. PICK x \in T : \A y \in T : ~(<<y, x>> \in OpToRel(<, Nat))
    BY NatLessThanWellFounded, WFMin
  <1>2. ASSUME NEW y \in T PROVE x <= y
    <2>1. y \in Nat /\ x \in Nat
      OBVIOUS
    <2>2. ~(<<y, x>> \in OpToRel(<, Nat))
      BY <1>1
    <2>3. ~(y < x)
      BY <2>1, <2>2 DEF OpToRel
    <2> QED BY <2>1, <2>3
  <1> QED BY <1>2

\* What is left when a queue loses its end: the messages up to the first that is lost.
LEMMA CarriesPrefix ==
  ASSUME NEW S, NEW q \in Seq(S), NEW l \in 0..Len(q), NEW k, NEW a \in Nat, NEW b \in Nat,
         a <= b, Carries(q, k, a, b)
  PROVE  \E c \in a..b : Carries(SubSeq(q, 1, l), k, a, c)
  <1> DEFINE r == SubSeq(q, 1, l)
             T == {v \in (a + 1)..b : \A i \in DataOf(r, k) : r[i].n # v}
  <1>1. /\ DOMAIN r = 1..l
        /\ \A i \in DOMAIN r : i \in DOMAIN q /\ r[i] = q[i] /\ i \in Nat /\ i <= l
        /\ \A i \in DOMAIN q : i \in Nat /\ (i <= l => i \in DOMAIN r)
        /\ l \in Nat
    OBVIOUS
  <1> HIDE DEF r
  <1>2. /\ \A i \in DataOf(r, k) : i \in DataOf(q, k) /\ r[i] = q[i] /\ i \in Nat /\ i <= l
        /\ \A i \in DataOf(q, k) : i \in Nat /\ (i <= l => i \in DataOf(r, k))
    BY <1>1 DEF DataOf
  <1>3. \A i, j \in DataOf(r, k) : i < j => r[i].n < r[j].n
    BY <1>2, CarriesMember
  <1>4. CASE T = {}
    <2>1. \A i \in DataOf(r, k) : r[i].n \in (a + 1)..b
      BY <1>2, CarriesMember
    <2>2. \A v \in (a + 1)..b : \E i \in DataOf(r, k) : r[i].n = v
      BY <1>4
    <2>3. Carries(r, k, a, b) /\ b \in a..b
      BY <1>3, <2>1, <2>2, CarriesIntro
    <2> QED BY <2>3 DEF r
  <1>5. CASE T # {}
    <2>1. T \subseteq Nat
      OBVIOUS
    <2>2. PICK x \in T : \A y \in T : x <= y
      BY <1>5, <2>1, Least
    <2>3. x \in (a + 1)..b /\ \A i \in DataOf(r, k) : r[i].n # x
      OBVIOUS
    <2> DEFINE c == x - 1
    <2>4. c \in a..b /\ c \in Nat /\ c + 1 = x /\ \A v : v \in (a + 1)..c => v \in (a + 1)..b /\ v < x
      BY <2>3
    <2> HIDE DEF c
    <2>5. PICK j \in DataOf(q, k) : q[j].n = x
      BY <2>3, CarriesMember
    <2>6. j > l
      BY <1>2, <2>3, <2>5
    <2>7. ASSUME NEW i \in DataOf(r, k) PROVE r[i].n \in (a + 1)..c
      <3>1. i \in DataOf(q, k) /\ r[i] = q[i] /\ i < j
        BY <1>1, <1>2, <2>5, <2>6
      <3>2. q[i].n \in (a + 1)..b /\ q[i].n < x
        BY <2>5, <3>1, CarriesMember
      <3> QED BY <2>3, <2>4, <3>1, <3>2
    <2>8. ASSUME NEW v \in (a + 1)..c PROVE \E i \in DataOf(r, k) : r[i].n = v
      <3>1. v \in (a + 1)..b /\ v < x /\ v \in Nat /\ x \in Nat
        BY <2>3, <2>4
      <3>2. v \notin T
        BY <2>2, <3>1
      <3> QED BY <3>1, <3>2
    <2>9. Carries(r, k, a, c)
      BY <1>3, <2>7, <2>8, CarriesIntro
    <2> QED BY <2>4, <2>9 DEF r
  <1> QED BY <1>4, <1>5

-----------------------------------------------------------------------------
(* What, once it is over, is over for good.                                 *)

\* The wired task writes one data frame: the first message of the stream it is told of.
LEMMA MessageWrites ==
  ASSUME TypeOK, NEW s \in Side, WiredMessage(s)
  PROVE  \E j \in Key :
           /\ WiredAt(s, "message") /\ Head(wq[s]) = Message(j) /\ wq[s] # <<>> /\ PopW(s)
           /\ \/ /\ j \in wired[s] /\ wbuf[s][j] # <<>> /\ Head(wbuf[s][j]) \in Nat \ {0}
                 /\ wbuf' = [wbuf EXCEPT ![s][j] = Tail(@)]
                 /\ Data(Mirror(j), Head(wbuf[s][j])) \in WiringEvent
                 /\ Write(s, Data(Mirror(j), Head(wbuf[s][j])))
              \/ UNCHANGED <<wbuf, wstate, net>>
  <1>1. WiredAt(s, "message") /\ wq[s] # <<>> /\ PopW(s)
    BY DEF WiredMessage, WiredAt
  <1>2. /\ Head(wq[s]).k \in Key /\ Head(wq[s]) \in WiredEvent /\ Head(wq[s]).t = "message"
    BY <1>1, HeadW
  <1> PICK j \in Key : j = Head(wq[s]).k
    BY <1>2
  <1>3. Head(wq[s]) = Message(j)
    BY <1>2 DEF WiredEvent, None, Message
  <1>4. \/ /\ j \in wired[s] /\ wbuf[s][j] # <<>> /\ wbuf' = [wbuf EXCEPT ![s][j] = Tail(@)]
           /\ Write(s, Data(Mirror(j), Head(wbuf[s][j])))
        \/ UNCHANGED <<wbuf, wstate, net>>
    BY DEF WiredMessage
  <1>5. wbuf \in [Side -> [Key -> Seq(Nat \ {0})]]
    BY DEF TypeOK
  <1>6. ASSUME wbuf[s][j] # <<>>
        PROVE  /\ Head(wbuf[s][j]) \in Nat \ {0}
               /\ Data(Mirror(j), Head(wbuf[s][j])) \in WiringEvent
    <2>1. Head(wbuf[s][j]) \in Nat \ {0}
      BY <1>5, <1>6, ChannelType
    <2>2. Mirror(j) \in Key
      BY MirrorKey
    <2> QED BY <2>1, <2>2, EventTypes
  <1> QED BY <1>1, <1>3, <1>4, <1>6

\* It writes one drop frame, of the stream it lets go.
LEMMA DropWrites ==
  ASSUME TypeOK, NEW s \in Side, WiredDrop(s)
  PROVE  \E j \in Key :
           /\ WiredAt(s, "drop") /\ wq[s] # <<>> /\ PopW(s) /\ Head(wq[s]).k = j
           /\ \/ /\ j \in wired[s] /\ PushU(s, Drop(j, FALSE))
                 /\ wired' = [wired EXCEPT ![s] = @ \ {j}]
                 /\ wbuf' = [wbuf EXCEPT ![s][j] = <<>>]
                 /\ \/ Write(s, DropFrame(Mirror(j)))
                    \/ UNCHANGED <<wstate, net>>
              \/ UNCHANGED <<wired, wbuf, uq, wstate, net>>
  <1>1. WiredAt(s, "drop") /\ wq[s] # <<>> /\ PopW(s)
    BY DEF WiredDrop, WiredAt
  <1>2. Head(wq[s]).k \in Key
    BY <1>1, HeadW
  <1> PICK j \in Key : j = Head(wq[s]).k
    BY <1>2
  <1> QED BY <1>1 DEF WiredDrop, Dropped

LEMMA DropWritesNoId ==
  ASSUME TypeOK, NEW s \in Side, NEW j \in Key,
         Write(s, DropFrame(Mirror(j))) \/ UNCHANGED <<wstate, net>>
  PROVE  NoFrame
  <1>1. Mirror(j) \in Key
    BY MirrorKey
  <1>2. DropFrame(Mirror(j)) \in WiringEvent
    BY <1>1, EventTypes
  <1>3. DropFrame(Mirror(j)).t # "open"
    BY Kinds2
  <1>4. CASE Write(s, DropFrame(Mirror(j)))
    BY <1>2, <1>3, <1>4, WriteHarmless
  <1>5. CASE UNCHANGED <<wstate, net>>
    BY <1>5, StillQuiet
  <1> QED BY <1>4, <1>5

\* A step allots an id, or none is allotted or announced.
LEMMA StepIds ==
  ASSUME TypeOK, [Next]_vars
  PROVE  \/ NoFrame /\ nextId' = nextId
         \/ \E s \in Side, id \in WireId : Allots(s, id)
  <1> USE DEF wiredVars, helperVars, netVars, halfVars
  <1>1. CASE UNCHANGED vars
    BY <1>1, StillQuiet DEF vars
  <1>2. ASSUME NEW s \in Side, WiredStep(s)
        PROVE  \/ NoFrame /\ nextId' = nextId
               \/ \E x \in Side, id \in WireId : Allots(x, id)
    <2>1. CASE WiredNone(s) \/ WiredEventFails(s) \/ WiredRegister(s) \/ WiredEnd(s)
      BY <2>1, StillQuiet DEF WiredNone, WiredEventFails, WiredRegister, WiredEnd
    <2>2. CASE WiredEventDone(s)
      <3>1. Write(s, EventFrame) /\ nextId' = nextId
        BY <2>2 DEF WiredEventDone
      <3> QED BY <3>1, WriteHarmless, EventTypes, Kinds2
    <2>3. CASE WiredMessage(s)
      <3>1. nextId' = nextId
        BY <2>3 DEF WiredMessage
      <3>2. PICK j \in Key :
              \/ /\ Data(Mirror(j), Head(wbuf[s][j])) \in WiringEvent
                 /\ Write(s, Data(Mirror(j), Head(wbuf[s][j])))
              \/ UNCHANGED <<wbuf, wstate, net>>
        BY <2>3, MessageWrites
      <3>3. Data(Mirror(j), Head(wbuf[s][j])).t # "open"
        BY Kinds2
      <3>4. NoFrame
        BY <3>2, <3>3, WriteHarmless, StillQuiet
      <3> QED BY <3>1, <3>4
    <2>4. CASE WiredDrop(s)
      <3>1. nextId' = nextId
        BY <2>4 DEF WiredDrop
      <3>2. PICK j \in Key : Write(s, DropFrame(Mirror(j))) \/ UNCHANGED <<wstate, net>>
        BY <2>4, DropWrites
      <3> QED BY <3>1, <3>2, DropWritesNoId
    <2>5. CASE WiredConnect(s) \/ WiredConnectFails(s)
      <3>1. nextId[s] + 1 \in WireId
        BY <2>5, NextIdType DEF WiredConnect, WiredConnectFails
      <3>2. Allots(s, nextId[s] + 1)
        BY <2>5 DEF WiredConnect, WiredConnectFails, Connected, Allots
      <3> QED BY <3>1, <3>2
    <2> QED BY <1>2, <2>1, <2>2, <2>3, <2>4, <2>5 DEF WiredStep
  <1>3. ASSUME NEW s \in Side, ReaderStep(s) PROVE NoFrame /\ nextId' = nextId
    <2>1. nextId' = nextId
      BY <1>3 DEF ReaderStep, ReadOpen, ReadEvent, ReadMessage, ReadDrop, ReadEnd, ReadJoin
    <2>2. net' = net \/ Reading(s, "open") \/ Reading(s, "event") \/ Reading(s, "data")
            \/ Reading(s, "drop")
      BY <1>3 DEF ReaderStep, ReadOpen, ReadEvent, ReadMessage, ReadDrop, ReadEnd, ReadJoin
    <2> QED BY <2>1, <2>2, ReadHarmless, StillQuiet
  <1>4. ASSUME NEW s \in Side, HelperStep(s) PROVE NoFrame /\ nextId' = nextId
    <2>1. UNCHANGED <<net, nextId>>
      BY <1>4 DEF HelperStep, HelperMessage, HelperRegister, HelperDrop, HelperNone, HelperEnd
    <2> QED BY <2>1, StillQuiet
  <1>5. ASSUME NEW s \in Side, AppStep(s) PROVE NoFrame /\ nextId' = nextId
    <2>1. UNCHANGED <<net, nextId>>
      BY <1>5 DEF AppStep, Send, SendNone, Shutdown, Abort, AbandonShutdown, HalfStep, FlushBegin,
                  FlushEnd, ShutWrite, DropWrite, DropRead, PollRead, PollReadEof
    <2> QED BY <2>1, StillQuiet
  <1>6. CASE Break
    <2>1. nextId' = nextId
      BY <1>6 DEF Break
    <2>2. ASSUME NEW x \in Side, NEW id \in WireId
          PROVE  NoneAdded(net[x], net'[x], OpenFrame(id))
      <3>1. PICK n \in 0..Len(net[x]) : net'[x] = SubSeq(net[x], 1, n)
        BY <1>6, BreakNet
      <3>2. net[x] \in Seq(WiringEvent)
        BY DEF TypeOK
      <3> QED BY <3>1, <3>2, PrefixAdds
    <2> QED BY <2>1, <2>2 DEF NoFrame
  <1> QED BY <1>1, <1>2, <1>3, <1>4, <1>5, <1>6 DEF Next

LEMMA OpenedStays ==
  ASSUME TypeOK, TypeOK', OpenedOnce, [Next]_vars, NEW x \in Side, NEW k \in Key, Opened(x, k)
  PROVE  Opened(x, k)'
  BY StepIds, StaysOpened, AllotsOpened

-----------------------------------------------------------------------------
(* The rx of an open stream, once gone, does not come back.                 *)

LEMMA RxSame ==
  ASSUME UNCHANGED <<wq, wired>>, NEW x \in Side, NEW k \in Key
  PROVE  RxKeeps(x, k)
  BY DEF RxKeeps, RxAlive

LEMMA RxPush ==
  ASSUME TypeOK, NEW s \in Side, NEW e \in WiredEvent, PushW(s, e), wired' = wired,
         NEW x \in Side, NEW k \in Key, e # Register(k)
  PROVE  RxKeeps(x, k)
  <1>1. wired'[x] \subseteq wired[x]
    OBVIOUS
  <1> QED BY <1>1, PushAnnounced

LEMMA RxGate ==
  ASSUME TypeOK, TypeOK', OpenedOnce, [Next]_vars, NEW x \in Side, NEW k \in Key, Opened(x, k)
  PROVE  RxKeeps(x, k)
  <1> USE DEF wiredVars, helperVars, netVars, halfVars
  <1>1. CASE UNCHANGED vars
    BY <1>1, RxSame DEF vars
  <1>2. ASSUME NEW s \in Side, OpensOne(s) PROVE RxKeeps(x, k)
    BY <1>2 DEF OpensOne
  <1>3. ASSUME NEW s \in Side, WiredStep(s) PROVE RxKeeps(x, k)
    <2>1. CASE WiredNone(s) \/ WiredEventFails(s) \/ WiredEventDone(s) \/ WiredMessage(s)
      <3>1. wq[s] # <<>> /\ PopW(s) /\ wired' = wired
        BY <2>1 DEF WiredNone, WiredEventFails, WiredEventDone, WiredMessage, WiredAt
      <3>2. wired'[x] \subseteq wired[x]
        BY <3>1
      <3> QED BY <3>1, <3>2, PopAnnounced
    <2>2. CASE WiredDrop(s)
      <3>1. PICK j \in Key :
              /\ wq[s] # <<>> /\ PopW(s)
              /\ wired' = [wired EXCEPT ![s] = @ \ {j}] \/ wired' = wired
        BY <2>2, DropWrites
      <3>2. wired \in [Side -> SUBSET Key]
        BY DEF TypeOK
      <3>3. wired'[x] \subseteq wired[x]
        BY <3>1, <3>2
      <3> QED BY <3>1, <3>3, PopAnnounced
    <2>3. CASE WiredEnd(s)
      <3>1. wq' = wq /\ wired' = [wired EXCEPT ![s] = {}] /\ wired \in [Side -> SUBSET Key]
        BY <2>3 DEF WiredEnd, TypeOK
      <3>2. wired'[x] \subseteq wired[x]
        BY <3>1
      <3> QED BY <3>1, <3>2 DEF RxKeeps, RxAlive
    <2> QED BY <1>2, <1>3, <2>1, <2>2, <2>3, RegisterRx, ConnectOpens, ConnectFailsOpens
            DEF WiredStep
  <1>4. ASSUME NEW s \in Side, ReaderStep(s) PROVE RxKeeps(x, k)
    <2>1. CASE ReadOpen(s)
      BY <1>2, <2>1, ReadOpens
    <2>2. CASE ReadEvent(s) \/ ReadMessage(s) \/ ReadDrop(s) \/ ReadEnd(s)
      BY <2>2, RxSame DEF ReadEvent, ReadMessage, ReadDrop, ReadEnd
    <2>3. CASE ReadJoin(s)
      <3>1. PushW(s, None) /\ wired' = wired
        BY <2>3 DEF ReadJoin
      <3> QED BY <3>1, RxPush, EventTypes, Kinds2
    <2> QED BY <1>4, <2>1, <2>2, <2>3 DEF ReaderStep
  <1>5. ASSUME NEW s \in Side, HelperStep(s) PROVE RxKeeps(x, k)
    <2>1. CASE HelperMessage(s) \/ HelperRegister(s) \/ HelperNone(s) \/ HelperEnd(s)
      BY <2>1, RxSame DEF HelperMessage, HelperRegister, HelperNone, HelperEnd
    <2>2. CASE HelperDrop(s)
      <3>1. HelperAt(s, "drop") /\ wired' = wired
        BY <2>2 DEF HelperDrop
      <3>2. Head(uq[s]).k \in Key
        BY <3>1, HeadU
      <3> PICK j \in Key : j = Head(uq[s]).k
        BY <3>2
      <3>3. wq' = wq \/ PushW(s, Drop(j, FALSE))
        BY <2>2 DEF HelperDrop
      <3>4. Drop(j, FALSE) \in WiredEvent
        BY EventTypes
      <3> QED BY <3>1, <3>3, <3>4, RxSame, RxPush, DropMessage
    <2> QED BY <1>5, <2>1, <2>2 DEF HelperStep
  <1>6. ASSUME NEW s \in Side, AppStep(s) PROVE RxKeeps(x, k)
    <2>1. ASSUME NEW n \in 0..MaxChans, Send(s, n) PROVE RxKeeps(x, k)
      <3>1. PushW(s, Event(n)) /\ wired' = wired
        BY <2>1 DEF Send
      <3> QED BY <3>1, RxPush, EventTypes, Kinds2
    <2>2. CASE SendNone(s) \/ Shutdown(s)
      <3>1. PushW(s, None) /\ wired' = wired
        BY <2>2 DEF SendNone, Shutdown
      <3> QED BY <3>1, RxPush, EventTypes, Kinds2
    <2>3. CASE Abort(s)
      <3>1. /\ wq' = [wq EXCEPT ![s] = <<>>] /\ wired' = [wired EXCEPT ![s] = {}]
            /\ wq \in [Side -> Seq(WiredEvent)] /\ wired \in [Side -> SUBSET Key]
        BY <2>3 DEF Abort, TypeOK
      <3>2. \/ wq'[x] = wq[x] /\ wired'[x] = wired[x]
            \/ wq'[x] = <<>> /\ wired'[x] = {}
        BY <3>1
      <3> QED BY <3>2 DEF RxKeeps, RxAlive, Queued
    <2>4. CASE AbandonShutdown(s)
      BY <2>4, RxSame DEF AbandonShutdown
    <2>5. ASSUME NEW j \in Key, HalfStep(s, j) PROVE RxKeeps(x, k)
      <3>1. CASE FlushBegin(s, j) \/ PollRead(s, j) \/ PollReadEof(s, j)
        BY <3>1, RxSame DEF FlushBegin, FlushSend, SendData, PollRead, PollReadEof
      <3>2. CASE FlushEnd(s, j)
        <4>1. PushW(s, Message(j)) /\ wired' = wired
          BY <3>2 DEF FlushEnd, FlushSend, SendEvent
        <4>2. Message(j) \in WiredEvent /\ Message(j) # Register(k)
          BY EventTypes, Kinds2
        <4> QED BY <4>1, <4>2, RxPush
      <3>3. CASE ShutWrite(s, j) \/ DropWrite(s, j) \/ DropRead(s, j)
        <4>1. PushW(s, Drop(j, TRUE)) /\ wired' = wired
          BY <3>3 DEF ShutWrite, DropWrite, DropRead
        <4>2. Drop(j, TRUE) \in WiredEvent
          BY EventTypes
        <4> QED BY <4>1, <4>2, RxPush, DropMessage
      <3> QED BY <2>5, <3>1, <3>2, <3>3 DEF HalfStep
    <2> QED BY <1>6, <2>1, <2>2, <2>3, <2>4, <2>5 DEF AppStep
  <1>7. CASE Break
    BY <1>7, RxSame DEF Break
  <1> QED BY <1>1, <1>3, <1>4, <1>5, <1>6, <1>7 DEF Next

-----------------------------------------------------------------------------
(* Nor does the tx, and no half is opened again.                            *)

TxKeeps(x, k) == TxAlive(x, k)' => TxAlive(x, k)

LEMMA TxSame ==
  ASSUME UNCHANGED <<uq, helper>>, NEW x \in Side, NEW k \in Key
  PROVE  TxKeeps(x, k)
  BY DEF TxKeeps, TxAlive

LEMMA TxPush ==
  ASSUME TypeOK, NEW s \in Side, NEW e \in UnwiredEvent, PushU(s, e), helper' = helper,
         NEW x \in Side, NEW k \in Key, x # s \/ e # Register(k)
  PROVE  TxKeeps(x, k)
  <1>1. uq \in [Side -> Seq(UnwiredEvent)] /\ uq[x] \in Seq(UnwiredEvent)
    BY DEF TypeOK
  <1>2. uq'[x] = uq[x] \/ (x = s /\ uq'[x] = Append(uq[x], e))
    BY <1>1 DEF PushU, Pushed
  <1>3. NoneAdded(uq[x], uq'[x], Register(k))
    <2>1. CASE uq'[x] = uq[x]
      BY <2>1, SameAdds
    <2>2. CASE x = s /\ uq'[x] = Append(uq[x], e)
      BY <1>1, <2>2, AppendAdds
    <2> QED BY <1>2, <2>1, <2>2
  <1> QED BY <1>3 DEF TxKeeps, TxAlive, NoneAdded

LEMMA TxPop ==
  ASSUME TypeOK, NEW s \in Side, NEW t, HelperAt(s, t), NEW x \in Side, NEW k \in Key
  PROVE  /\ Queued(uq'[x], Register(k)) => Queued(uq[x], Register(k))
         /\ helper'[x] \subseteq helper[x] => TxKeeps(x, k)
  <1>1. uq \in [Side -> Seq(UnwiredEvent)] /\ uq[x] \in Seq(UnwiredEvent)
    BY DEF TypeOK
  <1>2. uq'[x] = uq[x] \/ (uq[x] # <<>> /\ uq'[x] = Tail(uq[x]))
    BY <1>1 DEF HelperAt
  <1>3. NoneAdded(uq[x], uq'[x], Register(k))
    BY <1>1, <1>2, TailAdds, SameAdds
  <1> QED BY <1>3 DEF TxKeeps, TxAlive, NoneAdded

\* The stream is opened on side s: its halves go to the application, its tx to the helper.
Opening(s, j, h) ==
  /\ ~Opened(s, j) /\ PushU(s, Register(j)) /\ helper' = helper
  /\ wh' = [wh EXCEPT ![s][j] = h] /\ rh' = [rh EXCEPT ![s][j] = h]
  /\ arr' = arr /\ flushed' = flushed

LEMMA StepOpening ==
  ASSUME TypeOK, OpenedOnce, NEW s \in Side,
         ReadOpen(s) \/ WiredConnect(s) \/ WiredConnectFails(s)
  PROVE  \E j \in Key, h \in {"open", "dropped"} : Opening(s, j, h)
  <1>1. CASE ReadOpen(s)
    <2>1. PICK id \in WireId :
            /\ PushU(s, Register(Remote(id))) /\ UNCHANGED <<helper, arr, flushed>>
            /\ wh' = [wh EXCEPT ![s][Remote(id)] = "open"]
            /\ rh' = [rh EXCEPT ![s][Remote(id)] = "open"]
            /\ Remote(id) \in Key /\ ~Opened(s, Remote(id))
      BY <1>1, ReadsId
    <2> PICK j \in Key : j = Remote(id)
      BY <2>1
    <2>2. Opening(s, j, "open")
      BY <2>1 DEF Opening
    <2> QED BY <2>2
  <1>2. CASE WiredConnect(s) \/ WiredConnectFails(s)
    <2>1. nextId[s] + 1 \in WireId
      BY <1>2, NextIdType DEF WiredConnect, WiredConnectFails
    <2> PICK id \in WireId : id = nextId[s] + 1
      BY <2>1
    <2>2. Allots(s, id)
      BY <1>2 DEF WiredConnect, WiredConnectFails, Connected, Allots, netVars
    <2>3. Local(id) \in Key /\ ~(id <= nextId[s])
      BY <2>2, Fresh
    <2>4. ~Opened(s, Local(id))
      BY <2>3 DEF Opened, Local
    <2>5. PICK h \in {"open", "dropped"} : Opening(s, Local(id), h)
      BY <1>2, <2>4 DEF Opening, WiredConnect, WiredConnectFails, Connected
    <2> QED BY <2>3, <2>5
  <1> QED BY <1>1, <1>2

LEMMA TxGate ==
  ASSUME TypeOK, OpenedOnce, [Next]_vars, NEW x \in Side, NEW k \in Key, Opened(x, k)
  PROVE  TxKeeps(x, k) /\ (rh'[x][k] = rh[x][k] \/ rh'[x][k] = "dropped")
  <1> USE DEF wiredVars, helperVars, netVars, halfVars
  <1>1. /\ helper \in [Side -> SUBSET Key]
        /\ rh \in [Side -> [Key -> {"none", "open", "dropped"}]]
    BY DEF TypeOK
  <1>2. CASE UNCHANGED vars
    BY <1>2, TxSame DEF vars
  <1>3. ASSUME NEW s \in Side, NEW j \in Key, NEW h, Opening(s, j, h)
        PROVE  TxKeeps(x, k) /\ rh'[x][k] = rh[x][k]
    <2>1. x # s \/ k # j
      BY <1>3 DEF Opening
    <2>2. x # s \/ Register(j) # Register(k)
      BY <2>1, Kinds2
    <2>3. TxKeeps(x, k)
      BY <1>3, <2>2, TxPush, EventTypes DEF Opening
    <2>4. rh'[x][k] = rh[x][k]
      BY <1>1, <1>3, <2>1 DEF Opening
    <2> QED BY <2>3, <2>4
  <1>4. ASSUME NEW s \in Side, WiredStep(s)
        PROVE  TxKeeps(x, k) /\ (rh'[x][k] = rh[x][k] \/ rh'[x][k] = "dropped")
    <2>1. CASE \/ WiredNone(s) \/ WiredEventFails(s) \/ WiredEventDone(s) \/ WiredRegister(s)
               \/ WiredMessage(s) \/ WiredEnd(s)
      BY <2>1, TxSame DEF WiredNone, WiredEventFails, WiredEventDone, WiredRegister,
                          WiredMessage, WiredEnd
    <2>2. CASE WiredDrop(s)
      <3>1. PICK j \in Key : PushU(s, Drop(j, FALSE)) \/ uq' = uq
        BY <2>2, DropWrites
      <3>2. helper' = helper /\ rh' = rh
        BY <2>2 DEF WiredDrop
      <3>3. Drop(j, FALSE) \in UnwiredEvent
        BY EventTypes
      <3> QED BY <3>1, <3>2, <3>3, TxSame, TxPush, DropMessage
    <2> QED BY <1>3, <1>4, <2>1, <2>2, StepOpening DEF WiredStep
  <1>5. ASSUME NEW s \in Side, ReaderStep(s)
        PROVE  TxKeeps(x, k) /\ (rh'[x][k] = rh[x][k] \/ rh'[x][k] = "dropped")
    <2>1. CASE ReadEvent(s) \/ ReadJoin(s)
      BY <2>1, TxSame DEF ReadEvent, ReadJoin
    <2>2. CASE ReadMessage(s)
      <3>1. /\ PushU(s, Head(net[Peer(s)])) /\ helper' = helper /\ rh' = rh
            /\ Reading(s, "data")
        BY <2>2 DEF ReadMessage
      <3>2. Head(net[Peer(s)]) \in UnwiredEvent /\ Head(net[Peer(s)]).t = "data"
        BY <3>1, HeadNet
      <3> QED BY <3>1, <3>2, TxPush, Kinds
    <2>3. CASE ReadDrop(s)
      <3>1. /\ PushU(s, Drop(Head(net[Peer(s)]).k, TRUE)) /\ helper' = helper /\ rh' = rh
            /\ Reading(s, "drop")
        BY <2>3 DEF ReadDrop
      <3>2. Head(net[Peer(s)]).k \in Key
        BY <3>1, HeadNet
      <3> PICK j \in Key : j = Head(net[Peer(s)]).k
        BY <3>2
      <3>3. Drop(j, TRUE) \in UnwiredEvent
        BY EventTypes
      <3>4. Drop(j, TRUE) # Register(k)
        BY DropMessage
      <3>5. PushU(s, Drop(j, TRUE))
        BY <3>1
      <3> QED BY <3>1, <3>3, <3>4, <3>5, TxPush
    <2>4. CASE ReadEnd(s)
      <3>1. PushU(s, None) /\ helper' = helper /\ rh' = rh
        BY <2>4 DEF ReadEnd
      <3> QED BY <3>1, TxPush, EventTypes, Kinds2
    <2> QED BY <1>3, <1>5, <2>1, <2>2, <2>3, <2>4, StepOpening DEF ReaderStep
  <1>6. ASSUME NEW s \in Side, HelperStep(s) PROVE TxKeeps(x, k) /\ rh' = rh
    <2>1. rh' = rh
      BY <1>6 DEF HelperStep, HelperMessage, HelperRegister, HelperDrop, HelperNone, HelperEnd
    <2>2. CASE HelperMessage(s) \/ HelperDrop(s) \/ HelperNone(s)
      <3>1. HelperAt(s, "data") \/ HelperAt(s, "drop") \/ HelperAt(s, "none")
        BY <2>2 DEF HelperMessage, HelperDrop, HelperNone
      <3>2. helper'[x] \subseteq helper[x]
        BY <1>1, <2>2 DEF HelperMessage, HelperDrop, HelperNone
      <3> QED BY <2>1, <3>1, <3>2, TxPop
    <2>3. CASE HelperRegister(s)
      <3>1. /\ HelperAt(s, "register") /\ uq[s] # <<>>
            /\ helper' = [helper EXCEPT ![s] = @ \cup {Head(uq[s]).k}]
        BY <2>3 DEF HelperRegister, HelperAt
      <3>2. /\ Head(uq[s]) \in UnwiredEvent /\ Head(uq[s]).t = "register"
            /\ uq[s] \in Seq(UnwiredEvent)
        BY <3>1, HeadU DEF TypeOK
      <3>3. CASE x = s /\ k = Head(uq[s]).k
        <4>1. Head(uq[s]) = Register(k)
          BY <3>2, <3>3 DEF UnwiredEvent, None, Register
        <4>2. Queued(uq[s], Register(k))
          BY <3>1, <3>2, <4>1, TailAdds
        <4> QED BY <2>1, <3>3, <4>2 DEF TxKeeps, TxAlive
      <3>4. CASE ~(x = s /\ k = Head(uq[s]).k)
        <4>1. k \in helper'[x] => k \in helper[x]
          BY <1>1, <3>1, <3>4
        <4>2. Queued(uq'[x], Register(k)) => Queued(uq[x], Register(k))
          BY <3>1, TxPop
        <4> QED BY <2>1, <4>1, <4>2 DEF TxKeeps, TxAlive
      <3> QED BY <3>3, <3>4
    <2>4. CASE HelperEnd(s)
      <3>1. uq' = uq /\ helper' = [helper EXCEPT ![s] = {}]
        BY <2>4 DEF HelperEnd
      <3>2. helper'[x] \subseteq helper[x]
        BY <1>1, <3>1
      <3> QED BY <2>1, <3>1, <3>2 DEF TxKeeps, TxAlive
    <2> QED BY <1>6, <2>2, <2>3, <2>4 DEF HelperStep
  <1>7. ASSUME NEW s \in Side, AppStep(s)
        PROVE  TxKeeps(x, k) /\ (rh'[x][k] = rh[x][k] \/ rh'[x][k] = "dropped")
    <2>1. UNCHANGED <<uq, helper>>
      BY <1>7 DEF AppStep, Send, SendNone, Shutdown, Abort, AbandonShutdown, HalfStep, FlushBegin,
                  FlushEnd, ShutWrite, DropWrite, DropRead, PollRead, PollReadEof
    <2>2. rh' = rh \/ \E j \in Key : rh' = [rh EXCEPT ![s][j] = "dropped"]
      BY <1>7 DEF AppStep, Send, SendNone, Shutdown, Abort, AbandonShutdown, HalfStep, FlushBegin,
                  FlushEnd, ShutWrite, DropWrite, DropRead, PollRead, PollReadEof
    <2>3. rh'[x][k] = rh[x][k] \/ rh'[x][k] = "dropped"
      BY <1>1, <2>2
    <2> QED BY <2>1, <2>3, TxSame
  <1>8. CASE Break
    BY <1>8, TxSame DEF Break
  <1> QED BY <1>2, <1>4, <1>5, <1>6, <1>7, <1>8 DEF Next

\* The helper's queue is not opened again, and a side that is down stays down.
LEMMA DownGate ==
  ASSUME TypeOK, [Next]_vars, NEW x \in Side
  PROVE  (ustate'[x] = "open" => ustate[x] = "open") /\ (Down(x) => Down(x)')
  <1> USE DEF wiredVars, helperVars, netVars, halfVars
  <1>1. Peer(x) \in Side
    BY PeerSide
  <1>2. /\ wstate \in [Side -> {"open", "closed", "done"}]
        /\ ustate \in [Side -> {"open", "closed", "done"}]
        /\ reader \in [Side -> {"run", "join", "done"}]
    BY DEF TypeOK
  <1> SUFFICES /\ ustate'[x] = "open" => ustate[x] = "open"
               /\ wstate[Peer(x)] = "done" => wstate'[Peer(x)] = "done"
               /\ reader[Peer(x)] # "run" => reader'[Peer(x)] # "run"
               /\ broken => broken'
    BY DEF Down
  <1>3. CASE UNCHANGED vars
    BY <1>3 DEF vars
  <1>4. ASSUME NEW s \in Side, WiredStep(s)
        PROVE  /\ UNCHANGED <<ustate, reader, broken>>
               /\ wstate[Peer(x)] = "done" => wstate'[Peer(x)] = "done"
    <2>1. UNCHANGED <<ustate, reader, broken>>
      BY <1>4 DEF WiredStep, WiredNone, WiredConnect, WiredConnectFails, WiredEventFails,
                  WiredEventDone, WiredRegister, WiredMessage, WiredDrop, WiredEnd
    <2>2. wstate[s] # "done"
      BY <1>4 DEF WiredStep, WiredNone, WiredConnect, WiredConnectFails, WiredEventFails,
                  WiredEventDone, WiredRegister, WiredMessage, WiredDrop, WiredEnd, WiredAt
    <2>3. \A y \in Side : y # s => wstate'[y] = wstate[y]
      BY <1>2, <1>4 DEF WiredStep, WiredNone, WiredConnect, WiredConnectFails, WiredEventFails,
                  WiredEventDone, WiredRegister, WiredMessage, WiredDrop, WiredEnd, Write, Dropped
    <2> QED BY <1>1, <2>1, <2>2, <2>3
  <1>5. ASSUME NEW s \in Side, ReaderStep(s)
        PROVE  /\ UNCHANGED <<ustate, wstate, broken>>
               /\ reader[Peer(x)] # "run" => reader'[Peer(x)] # "run"
    BY <1>1, <1>2, <1>5 DEF ReaderStep, ReadOpen, ReadEvent, ReadMessage, ReadDrop, ReadEnd,
                            ReadJoin
  <1>6. ASSUME NEW s \in Side, HelperStep(s)
        PROVE  /\ UNCHANGED <<wstate, reader, broken>>
               /\ ustate'[x] = "open" => ustate[x] = "open"
    BY <1>2, <1>6 DEF HelperStep, HelperMessage, HelperRegister, HelperDrop, HelperNone,
                      HelperEnd
  <1>7. ASSUME NEW s \in Side, AppStep(s)
        PROVE  /\ UNCHANGED <<ustate, broken>>
               /\ wstate[Peer(x)] = "done" => wstate'[Peer(x)] = "done"
               /\ reader[Peer(x)] # "run" => reader'[Peer(x)] # "run"
    BY <1>1, <1>2, <1>7 DEF AppStep, Send, SendNone, Shutdown, Abort, AbandonShutdown, HalfStep,
                  FlushBegin, FlushEnd, ShutWrite, DropWrite, DropRead, PollRead, PollReadEof
  <1>8. CASE Break
    BY <1>8 DEF Break
  <1> QED BY <1>3, <1>4, <1>5, <1>6, <1>7, <1>8 DEF Next

-----------------------------------------------------------------------------
(* The invariant.                                                           *)

\* The read half of stream m on side p is not there yet, or can still be given messages.
Intake(p, m) == Opened(p, m) => TxAlive(p, m) /\ rh[p][m] = "open"

\* The write half of stream k on side s is not there yet, or its channel is still read.
Source(s, k) == Opened(s, k) => RxAlive(s, k)

\* The direction that ends in the read half of stream m on side p: how many messages were
\* flushed into it, and those in the writer's channel.
Flushed(p, m) == flushed[Peer(p)][Mirror(m)]
InChannel(p, m) == wbuf[Peer(p)][Mirror(m)]

\* The helper's queue goes on to message b where the read half stops, the transport to
\* message c where that queue stops, the writer's channel where the transport stops: each as
\* long as what it holds may still arrive.
Path(p, m, b, c) ==
  /\ Len(arr[p][m]) <= b /\ b <= c /\ c <= Flushed(p, m)
  /\ Intake(p, m) => Carries(uq[p], m, Len(arr[p][m]), b)
  /\ Intake(p, m) /\ ustate[p] = "open" => Carries(net[Peer(p)], m, b, c)
  /\ Intake(p, m) /\ ustate[p] = "open" /\ Source(Peer(p), Mirror(m)) /\ ~Down(Peer(p)) =>
       InChannel(p, m) = [i \in 1..(Flushed(p, m) - c) |-> c + i]

PathKey(p, m) == InOrder(p, m) /\ \E b, c \in Nat : Path(p, m, b, c)
PathInv == \A p \in Side, m \in Key : PathKey(p, m)

LEMMA PathTypes ==
  ASSUME TypeOK, NEW p \in Side, NEW m \in Key
  PROVE  /\ Peer(p) \in Side /\ Peer(Peer(p)) = p /\ Mirror(m) \in Key
         /\ arr[p][m] \in Seq(Nat \ {0}) /\ Len(arr[p][m]) \in Nat
         /\ InChannel(p, m) \in Seq(Nat \ {0}) /\ Flushed(p, m) \in Nat
         /\ uq[p] \in Seq(UnwiredEvent) /\ net[Peer(p)] \in Seq(WiringEvent)
  <1>1. Peer(p) \in Side /\ Peer(Peer(p)) = p /\ Mirror(m) \in Key
    BY PeerSide, MirrorKey
  <1>2. arr[p][m] \in Seq(Nat \ {0}) /\ InChannel(p, m) \in Seq(Nat \ {0})
    BY <1>1 DEF TypeOK, InChannel
  <1>3. Flushed(p, m) \in Nat
    BY <1>1 DEF TypeOK, Flushed
  <1>4. uq[p] \in Seq(UnwiredEvent) /\ net[Peer(p)] \in Seq(WiringEvent)
    BY <1>1 DEF TypeOK
  <1>5. Len(arr[p][m]) \in Nat
    BY <1>2
  <1> QED BY <1>1, <1>2, <1>3, <1>4, <1>5

LEMMA IntakeGate ==
  ASSUME TypeOK, TypeOK', OpenedOnce, [Next]_vars, NEW p \in Side, NEW m \in Key, Intake(p, m)'
  PROVE  Intake(p, m)
  BY OpenedStays, TxGate DEF Intake, TxKeeps

LEMMA SourceGate ==
  ASSUME TypeOK, TypeOK', OpenedOnce, [Next]_vars, NEW s \in Side, NEW k \in Key, Source(s, k)'
  PROVE  Source(s, k)
  BY OpenedStays, RxGate DEF Source, RxKeeps

-----------------------------------------------------------------------------
(* Steps that move no message.                                              *)

\* From queue q to r the data of stream m stays the same.
Kept(q, r, m) == \A a, b \in Nat : Carries(q, m, a, b) => Carries(r, m, a, b)

LEMMA KeptSame == ASSUME NEW q, NEW m PROVE Kept(q, q, m)
  BY DEF Kept

LEMMA KeptAppend ==
  ASSUME NEW S, NEW q \in Seq(S), NEW e \in S, NEW m, ~IsData(e, m)
  PROVE  Kept(q, Append(q, e), m)
  BY CarriesAppend DEF Kept

LEMMA KeptTail ==
  ASSUME NEW S, NEW q \in Seq(S), q # <<>>, NEW m, ~IsData(Head(q), m)
  PROVE  Kept(q, Tail(q), m)
  BY CarriesTail DEF Kept

LEMMA KeptPush ==
  ASSUME TypeOK, NEW s \in Side, NEW e \in UnwiredEvent, PushU(s, e),
         NEW x \in Side, NEW m \in Key, x = s => ~IsData(e, m)
  PROVE  Kept(uq[x], uq'[x], m)
  <1>1. uq \in [Side -> Seq(UnwiredEvent)] /\ uq[x] \in Seq(UnwiredEvent)
    BY DEF TypeOK
  <1>2. uq'[x] = uq[x] \/ (x = s /\ uq'[x] = Append(uq[x], e))
    BY <1>1 DEF PushU, Pushed
  <1>3. CASE x = s /\ uq'[x] = Append(uq[x], e)
    BY <1>1, <1>3, KeptAppend
  <1> QED BY <1>2, <1>3, KeptSame

LEMMA KeptPop ==
  ASSUME TypeOK, NEW s \in Side, NEW t, HelperAt(s, t),
         NEW x \in Side, NEW m \in Key, x = s => ~IsData(Head(uq[s]), m)
  PROVE  Kept(uq[x], uq'[x], m)
  <1>1. uq \in [Side -> Seq(UnwiredEvent)] /\ uq[x] \in Seq(UnwiredEvent)
    BY DEF TypeOK
  <1>2. uq'[x] = uq[x] \/ (x = s /\ uq[x] # <<>> /\ uq'[x] = Tail(uq[x]))
    BY <1>1 DEF HelperAt
  <1>3. CASE x = s /\ uq[x] # <<>> /\ uq'[x] = Tail(uq[x])
    BY <1>1, <1>3, KeptTail
  <1> QED BY <1>2, <1>3, KeptSame

LEMMA KeptRead ==
  ASSUME TypeOK, NEW s \in Side, NEW t, Reading(s, t),
         NEW x \in Side, NEW m \in Key, x = Peer(s) => ~IsData(Head(net[Peer(s)]), m)
  PROVE  Kept(net[x], net'[x], m)
  <1>1. net \in [Side -> Seq(WiringEvent)] /\ net[x] \in Seq(WiringEvent) /\ Peer(s) \in Side
    BY PeerSide DEF TypeOK
  <1>2. net'[x] = net[x] \/ (x = Peer(s) /\ net[x] # <<>> /\ net'[x] = Tail(net[x]))
    BY <1>1 DEF Reading
  <1>3. CASE x = Peer(s) /\ net[x] # <<>> /\ net'[x] = Tail(net[x])
    BY <1>1, <1>3, KeptTail
  <1> QED BY <1>2, <1>3, KeptSame

LEMMA KeptWrite ==
  ASSUME TypeOK, NEW s \in Side, NEW f \in WiringEvent,
         net' = net \/ net' = [net EXCEPT ![s] = Append(@, f)],
         NEW x \in Side, NEW m \in Key, x = s => ~IsData(f, m)
  PROVE  Kept(net[x], net'[x], m)
  <1>1. net \in [Side -> Seq(WiringEvent)] /\ net[x] \in Seq(WiringEvent)
    BY DEF TypeOK
  <1>2. net'[x] = net[x] \/ (x = s /\ net'[x] = Append(net[x], f))
    BY <1>1
  <1>3. CASE x = s /\ net'[x] = Append(net[x], f)
    BY <1>1, <1>3, KeptAppend
  <1> QED BY <1>2, <1>3, KeptSame

\* Neither registrations nor drops, frames of ids or rests of events are messages.
LEMMA NotData ==
  ASSUME NEW k, NEW j
  PROVE  /\ ~IsData(None, k) /\ ~IsData(Register(j), k) /\ ~IsData(EventFrame, k)
         /\ ~IsData(OpenFrame(j), k) /\ ~IsData(DropFrame(j), k)
         /\ ~IsData(Drop(j, TRUE), k) /\ ~IsData(Drop(j, FALSE), k)
         /\ \A n : IsData(Data(j, n), k) <=> j = k
         /\ \A n : Data(j, n).n = n
  BY DEF IsData, None, Register, EventFrame, OpenFrame, DropFrame, Drop, Data

LEMMA PathStill ==
  ASSUME TypeOK, TypeOK', OpenedOnce, [Next]_vars, NEW p \in Side, NEW m \in Key,
         PathKey(p, m), arr'[p][m] = arr[p][m], Flushed(p, m)' = Flushed(p, m),
         Intake(p, m) => Kept(uq[p], uq'[p], m),
         Intake(p, m) /\ ustate[p] = "open" => Kept(net[Peer(p)], net'[Peer(p)], m),
         Source(Peer(p), Mirror(m))' /\ ~Down(Peer(p))' => InChannel(p, m)' = InChannel(p, m)
  PROVE  PathKey(p, m)'
  <1>1. PICK b \in Nat, c \in Nat : Path(p, m, b, c)
    BY DEF PathKey
  <1>2. /\ Peer(p) \in Side /\ Mirror(m) \in Key /\ Len(arr[p][m]) \in Nat
        /\ Len(arr'[p][m]) = Len(arr[p][m])
    BY PathTypes
  <1>3. Intake(p, m)' => Intake(p, m)
    BY IntakeGate
  <1>4. Source(Peer(p), Mirror(m))' => Source(Peer(p), Mirror(m))
    BY <1>2, SourceGate
  <1>5. /\ ustate'[p] = "open" => ustate[p] = "open"
        /\ ~Down(Peer(p))' => ~Down(Peer(p))
    BY <1>2, DownGate
  <1>6. InOrder(p, m)'
    BY DEF PathKey, InOrder
  <1>7. Path(p, m, b, c)'
    BY <1>1, <1>2, <1>3, <1>4, <1>5 DEF Path, Kept
  <1> QED BY <1>6, <1>7 DEF PathKey

LEMMA PathStep ==
  ASSUME TypeOK, TypeOK', OpenedOnce, [Next]_vars, PathInv, UNCHANGED <<arr, flushed>>,
         \A x \in Side, m \in Key : /\ Kept(uq[x], uq'[x], m) /\ Kept(net[x], net'[x], m)
                                    /\ Source(x, m)' => wbuf'[x][m] = wbuf[x][m]
  PROVE  PathInv'
  <1> SUFFICES ASSUME NEW p \in Side, NEW m \in Key PROVE PathKey(p, m)'
    BY DEF PathInv
  <1>1. Peer(p) \in Side /\ Mirror(m) \in Key
    BY PathTypes
  <1>2. PathKey(p, m) /\ Flushed(p, m)' = Flushed(p, m) /\ arr'[p][m] = arr[p][m]
    BY DEF PathInv, Flushed
  <1>3. Kept(uq[p], uq'[p], m) /\ Kept(net[Peer(p)], net'[Peer(p)], m)
    BY <1>1
  <1>4. Source(Peer(p), Mirror(m))' => InChannel(p, m)' = InChannel(p, m)
    BY <1>1 DEF InChannel
  <1> QED BY <1>2, <1>3, <1>4, PathStill

\* The channels of all streams of a side go, and with them their rx.
LEMMA ChannelsGone ==
  ASSUME TypeOK, TypeOK', OpenedOnce, OrderedQueues, [Next]_vars, NEW s \in Side,
         wq'[s] = <<>>, wired'[s] = {}, wbuf' = [wbuf EXCEPT ![s] = [k \in Key |-> <<>>]],
         NEW x \in Side, NEW k \in Key, Source(x, k)'
  PROVE  wbuf'[x][k] = wbuf[x][k]
  <1>1. wbuf \in [Side -> [Key -> Seq(Nat \ {0})]]
    BY DEF TypeOK
  <1>2. CASE x = s
    <2>1. ~RxAlive(s, k)'
      BY DEF RxAlive, Queued
    <2>2. ~Opened(s, k)
      BY <1>2, <2>1, OpenedStays DEF Source
    <2>3. wbuf[s][k] = <<>>
      BY <2>2 DEF OrderedQueues, OrderedKey, Untouched
    <2> QED BY <1>1, <1>2, <2>3
  <1>3. CASE x # s
    BY <1>1, <1>3
  <1> QED BY <1>2, <1>3

LEMMA PathWired ==
  ASSUME TypeOK, TypeOK', OpenedOnce, OrderedQueues, [Next]_vars, PathInv, NEW s \in Side,
         WiredStep(s), ~WiredMessage(s)
  PROVE  PathInv'
  <1> USE DEF wiredVars, helperVars, netVars, halfVars
  <1>1. UNCHANGED <<arr, flushed>>
    BY DEF WiredStep, WiredNone, WiredConnect, WiredConnectFails, WiredEventFails,
           WiredEventDone, WiredRegister, WiredDrop, WiredEnd
  <1>2. CASE WiredNone(s) \/ WiredEventFails(s) \/ WiredRegister(s)
    <2>1. UNCHANGED <<uq, net, wbuf>>
      BY <1>2 DEF WiredNone, WiredEventFails, WiredRegister
    <2> QED BY <1>1, <2>1, KeptSame, PathStep
  <1>3. CASE WiredEventDone(s)
    <2>1. UNCHANGED <<uq, wbuf>> /\ Write(s, EventFrame)
      BY <1>3 DEF WiredEventDone
    <2>2. net' = net \/ net' = [net EXCEPT ![s] = Append(@, EventFrame)]
      BY <2>1 DEF Write
    <2>3. \A x \in Side, m \in Key : Kept(uq[x], uq'[x], m) /\ Kept(net[x], net'[x], m)
      BY <2>1, <2>2, KeptSame, KeptWrite, EventTypes, NotData
    <2> QED BY <1>1, <2>1, <2>3, PathStep
  <1>4. CASE WiredConnect(s) \/ WiredConnectFails(s)
    <2>1. nextId[s] + 1 \in WireId
      BY <1>4, NextIdType DEF WiredConnect, WiredConnectFails
    <2> PICK id \in WireId : id = nextId[s] + 1
      BY <2>1
    <2>2. /\ UNCHANGED wbuf /\ PushU(s, Register(Local(id)))
          /\ net' = net \/ net' = [net EXCEPT ![s] = Append(@, OpenFrame(id))]
      BY <1>4 DEF WiredConnect, WiredConnectFails, Connected
    <2>3. Local(id) \in Key /\ OpenFrame(id) \in WiringEvent
      BY EventTypes
    <2>4. Register(Local(id)) \in UnwiredEvent
      BY <2>3, EventTypes
    <2>5. ASSUME NEW x \in Side, NEW m \in Key
          PROVE  Kept(uq[x], uq'[x], m) /\ Kept(net[x], net'[x], m)
      <3>1. ~IsData(Register(Local(id)), m) /\ ~IsData(OpenFrame(id), m)
        BY NotData
      <3>2. Kept(uq[x], uq'[x], m)
        BY <2>2, <2>4, <3>1, KeptPush
      <3>3. Kept(net[x], net'[x], m)
        BY <2>2, <2>3, <3>1, KeptWrite
      <3> QED BY <3>2, <3>3
    <2> QED BY <1>1, <2>2, <2>5, PathStep
  <1>5. CASE WiredDrop(s)
    <2>1. PICK j \in Key :
            /\ WiredAt(s, "drop") /\ wq[s] # <<>> /\ PopW(s)
            /\ \/ /\ j \in wired[s] /\ PushU(s, Drop(j, FALSE))
                  /\ wired' = [wired EXCEPT ![s] = @ \ {j}]
                  /\ wbuf' = [wbuf EXCEPT ![s][j] = <<>>]
                  /\ \/ Write(s, DropFrame(Mirror(j)))
                     \/ UNCHANGED <<wstate, net>>
               \/ UNCHANGED <<wired, wbuf, uq, wstate, net>>
      BY <1>5, DropWrites
    <2>2. CASE UNCHANGED <<wired, wbuf, uq, wstate, net>>
      BY <1>1, <2>2, KeptSame, PathStep
    <2>3. CASE /\ j \in wired[s] /\ PushU(s, Drop(j, FALSE))
               /\ wired' = [wired EXCEPT ![s] = @ \ {j}]
               /\ wbuf' = [wbuf EXCEPT ![s][j] = <<>>]
               /\ \/ Write(s, DropFrame(Mirror(j)))
                  \/ UNCHANGED <<wstate, net>>
      <3>1. Mirror(j) \in Key
        BY MirrorKey
      <3>2. DropFrame(Mirror(j)) \in WiringEvent /\ Drop(j, FALSE) \in UnwiredEvent
        BY <3>1, EventTypes
      <3>3. net' = net \/ net' = [net EXCEPT ![s] = Append(@, DropFrame(Mirror(j)))]
        BY <2>3 DEF Write
      <3>4. ASSUME NEW x \in Side, NEW m \in Key
            PROVE  Kept(uq[x], uq'[x], m) /\ Kept(net[x], net'[x], m)
        <4>1. ~IsData(Drop(j, FALSE), m) /\ ~IsData(DropFrame(Mirror(j)), m)
          BY NotData
        <4>2. Kept(uq[x], uq'[x], m)
          BY <2>3, <3>2, <4>1, KeptPush
        <4>3. Kept(net[x], net'[x], m)
          BY <3>2, <3>3, <4>1, KeptWrite
        <4> QED BY <4>2, <4>3
      <3>5. ~Source(s, j)'
        <4>1. EntersOnce(s, j)
          BY DEF OpenedOnce
        <4>2. Opened(s, j) /\ ~Queued(wq[s], Register(j))
          BY <2>3, <4>1 DEF EntersOnce, Unknown
        <4>3. Opened(s, j)'
          BY <4>2, OpenedStays
        <4>4. ~Queued(wq'[s], Register(j))
          BY <2>1, <4>2, PopHarmless DEF NoEntry, NoneAdded
        <4>5. j \notin wired'[s]
          BY <2>3 DEF TypeOK
        <4> QED BY <4>3, <4>4, <4>5 DEF Source, RxAlive
      <3>6. ASSUME NEW x \in Side, NEW m \in Key, Source(x, m)' PROVE wbuf'[x][m] = wbuf[x][m]
        <4>1. x # s \/ m # j
          BY <3>5, <3>6
        <4>2. wbuf \in [Side -> [Key -> Seq(Nat \ {0})]]
          BY DEF TypeOK
        <4> QED BY <2>3, <4>1, <4>2
      <3> QED BY <1>1, <3>4, <3>6, PathStep
    <2> QED BY <2>1, <2>2, <2>3
  <1>6. CASE WiredEnd(s)
    <2>1. /\ UNCHANGED <<uq, net, wq>> /\ wq[s] = <<>> /\ wired' = [wired EXCEPT ![s] = {}]
          /\ wbuf' = [wbuf EXCEPT ![s] = [k \in Key |-> <<>>]]
      BY <1>6 DEF WiredEnd
    <2>2. wq'[s] = <<>> /\ wired'[s] = {}
      BY <2>1 DEF TypeOK
    <2>3. \A x \in Side, k \in Key : Source(x, k)' => wbuf'[x][k] = wbuf[x][k]
      BY <2>1, <2>2, ChannelsGone
    <2> QED BY <1>1, <2>1, <2>3, KeptSame, PathStep
  <1> QED BY <1>2, <1>3, <1>4, <1>5, <1>6 DEF WiredStep

LEMMA PathReader ==
  ASSUME TypeOK, TypeOK', OpenedOnce, [Next]_vars, PathInv, NEW s \in Side,
         ReaderStep(s), ~ReadMessage(s)
  PROVE  PathInv'
  <1> USE DEF wiredVars, helperVars, netVars, halfVars
  <1>1. UNCHANGED <<arr, flushed, wbuf>>
    BY DEF ReaderStep, ReadOpen, ReadEvent, ReadDrop, ReadEnd, ReadJoin
  <1>2. ASSUME NEW t \in {"open", "event", "drop"}, Reading(s, t), NEW x \in Side, NEW m \in Key
        PROVE  Kept(net[x], net'[x], m)
    <2>1. Head(net[Peer(s)]).t # "data"
      BY <1>2 DEF Reading
    <2>2. ~IsData(Head(net[Peer(s)]), m)
      BY <2>1 DEF IsData
    <2> QED BY <1>2, <2>2, KeptRead
  <1>3. CASE ReadOpen(s)
    <2>1. PICK id \in WireId :
            Reading(s, "open") /\ PushU(s, Register(Remote(id))) /\ Remote(id) \in Key
      BY <1>3, ReadsId
    <2>2. Register(Remote(id)) \in UnwiredEvent
      BY <2>1, EventTypes
    <2>3. \A x \in Side, m \in Key : Kept(uq[x], uq'[x], m) /\ Kept(net[x], net'[x], m)
      BY <1>2, <2>1, <2>2, KeptPush, NotData
    <2> QED BY <1>1, <2>3, PathStep
  <1>4. CASE ReadEvent(s)
    <2>1. Reading(s, "event") /\ uq' = uq
      BY <1>4 DEF ReadEvent
    <2>2. \A x \in Side, m \in Key : Kept(uq[x], uq'[x], m) /\ Kept(net[x], net'[x], m)
      BY <1>2, <2>1, KeptSame
    <2> QED BY <1>1, <2>2, PathStep
  <1>5. CASE ReadDrop(s)
    <2>1. Reading(s, "drop") /\ PushU(s, Drop(Head(net[Peer(s)]).k, TRUE))
      BY <1>5 DEF ReadDrop
    <2>2. Head(net[Peer(s)]).k \in Key
      BY <2>1, HeadNet
    <2> PICK j \in Key : j = Head(net[Peer(s)]).k
      BY <2>2
    <2>3. PushU(s, Drop(j, TRUE))
      BY <2>1
    <2>4. Drop(j, TRUE) \in UnwiredEvent /\ \A m \in Key : ~IsData(Drop(j, TRUE), m)
      BY EventTypes, NotData
    <2>5. ASSUME NEW x \in Side, NEW m \in Key
          PROVE  Kept(uq[x], uq'[x], m) /\ Kept(net[x], net'[x], m)
      <3>1. Kept(uq[x], uq'[x], m)
        BY <2>3, <2>4, KeptPush
      <3> QED BY <1>2, <2>1, <3>1
    <2> QED BY <1>1, <2>5, PathStep
  <1>6. CASE ReadEnd(s)
    <2>1. PushU(s, None) /\ net' = net
      BY <1>6 DEF ReadEnd
    <2>2. \A x \in Side, m \in Key : Kept(uq[x], uq'[x], m) /\ Kept(net[x], net'[x], m)
      BY <2>1, KeptPush, KeptSame, EventTypes, NotData
    <2> QED BY <1>1, <2>2, PathStep
  <1>7. CASE ReadJoin(s)
    <2>1. UNCHANGED <<uq, net>>
      BY <1>7 DEF ReadJoin
    <2> QED BY <1>1, <2>1, KeptSame, PathStep
  <1> QED BY <1>3, <1>4, <1>5, <1>6, <1>7 DEF ReaderStep

LEMMA PathHelper ==
  ASSUME TypeOK, TypeOK', OpenedOnce, [Next]_vars, PathInv, NEW s \in Side,
         HelperStep(s), ~HelperMessage(s)
  PROVE  PathInv'
  <1> USE DEF wiredVars, netVars, halfVars
  <1>1. UNCHANGED <<arr, flushed, wbuf, net>>
    BY DEF HelperStep, HelperRegister, HelperDrop, HelperNone, HelperEnd
  <1>2. CASE HelperEnd(s)
    BY <1>1, <1>2, KeptSame, PathStep DEF HelperEnd
  <1>3. CASE HelperRegister(s) \/ HelperDrop(s) \/ HelperNone(s)
    <2>1. PICK t \in {"register", "drop", "none"} : HelperAt(s, t)
      BY <1>3 DEF HelperRegister, HelperDrop, HelperNone
    <2>2. Head(uq[s]).t # "data"
      BY <2>1 DEF HelperAt
    <2>3. \A m \in Key : ~IsData(Head(uq[s]), m)
      BY <2>2 DEF IsData
    <2>4. \A x \in Side, m \in Key : Kept(uq[x], uq'[x], m) /\ Kept(net[x], net'[x], m)
      BY <1>1, <2>1, <2>3, KeptPop, KeptSame
    <2> QED BY <1>1, <2>4, PathStep
  <1> QED BY <1>2, <1>3 DEF HelperStep

LEMMA PathApp ==
  ASSUME TypeOK, TypeOK', OpenedOnce, OrderedQueues, [Next]_vars, PathInv, NEW s \in Side,
         AppStep(s), \A k \in Key : ~FlushBegin(s, k)
  PROVE  PathInv'
  <1> USE DEF wiredVars, helperVars, netVars, halfVars
  <1>1. UNCHANGED <<arr, uq, net, flushed>>
    BY DEF AppStep, Send, SendNone, Shutdown, Abort, AbandonShutdown, HalfStep, FlushEnd, ShutWrite,
           DropWrite, DropRead, PollRead, PollReadEof
  <1>2. CASE Abort(s)
    <2>1. /\ wq' = [wq EXCEPT ![s] = <<>>] /\ wired' = [wired EXCEPT ![s] = {}]
          /\ wbuf' = [wbuf EXCEPT ![s] = [k \in Key |-> <<>>]]
      BY <1>2 DEF Abort
    <2>2. wq'[s] = <<>> /\ wired'[s] = {}
      BY <2>1 DEF TypeOK
    <2>3. \A x \in Side, k \in Key : Source(x, k)' => wbuf'[x][k] = wbuf[x][k]
      BY <2>1, <2>2, ChannelsGone
    <2> QED BY <1>1, <2>3, KeptSame, PathStep
  <1>3. CASE ~Abort(s)
    <2>1. ASSUME (\E n \in 0..MaxChans : Send(s, n)) \/ SendNone(s) \/ Shutdown(s) \/ AbandonShutdown(s)
          PROVE  wbuf' = wbuf
      BY <2>1 DEF Send, SendNone, Shutdown, AbandonShutdown
    <2>2. ASSUME NEW k \in Key, HalfStep(s, k) PROVE wbuf' = wbuf
      <3>1. CASE FlushEnd(s, k)
        BY <3>1 DEF FlushEnd, FlushSend, SendEvent
      <3> QED BY <2>2, <3>1 DEF HalfStep, ShutWrite, DropWrite, DropRead, PollRead,
                                PollReadEof
    <2>3. wbuf' = wbuf
      BY <1>3, <2>1, <2>2 DEF AppStep
    <2> QED BY <1>1, <2>3, KeptSame, PathStep
  <1> QED BY <1>2, <1>3

-----------------------------------------------------------------------------
(* Steps that move a message.                                               *)

\* poll_flush: the next message goes into the writer's channel.
LEMMA PathFlush ==
  ASSUME TypeOK, TypeOK', OpenedOnce, [Next]_vars, PathInv, NEW s \in Side, NEW k \in Key,
         FlushBegin(s, k)
  PROVE  PathInv'
  <1> USE DEF helperVars, netVars
  <1>1. /\ UNCHANGED <<arr, uq, net, wq, wired>>
        /\ flushed' = [flushed EXCEPT ![s][k] = @ + 1]
        /\ wbuf' = [wbuf EXCEPT ![s][k] = Append(@, flushed'[s][k])]
    BY DEF FlushBegin, FlushSend, SendData
  <1>2. /\ wbuf \in [Side -> [Key -> Seq(Nat \ {0})]] /\ flushed \in [Side -> [Key -> Nat]]
    BY DEF TypeOK
  <1> SUFFICES ASSUME NEW p \in Side, NEW m \in Key PROVE PathKey(p, m)'
    BY DEF PathInv
  <1>3. PathKey(p, m)
    BY DEF PathInv
  <1>4. /\ Peer(p) \in Side /\ Mirror(m) \in Key /\ arr'[p][m] = arr[p][m]
        /\ Kept(uq[p], uq'[p], m) /\ Kept(net[Peer(p)], net'[Peer(p)], m)
    BY <1>1, PathTypes, KeptSame
  <1>5. CASE ~(Peer(p) = s /\ Mirror(m) = k)
    <2>1. Flushed(p, m)' = Flushed(p, m) /\ InChannel(p, m)' = InChannel(p, m)
      BY <1>1, <1>2, <1>4, <1>5 DEF Flushed, InChannel
    <2> QED BY <1>3, <1>4, <2>1, PathStill
  <1>6. CASE Peer(p) = s /\ Mirror(m) = k
    <2>1. PICK b \in Nat, c \in Nat : Path(p, m, b, c)
      BY <1>3 DEF PathKey
    <2> DEFINE f == Flushed(p, m)
               w == InChannel(p, m)
    <2>2. f \in Nat /\ w \in Seq(Nat \ {0}) /\ b <= c /\ c <= f
      BY <2>1, PathTypes DEF Path
    <2>3. Flushed(p, m)' = f + 1 /\ InChannel(p, m)' = Append(w, f + 1)
      BY <1>1, <1>2, <1>4, <1>6 DEF Flushed, InChannel
    <2>4. /\ Intake(p, m)' => Intake(p, m)
          /\ Source(Peer(p), Mirror(m))' => Source(Peer(p), Mirror(m))
          /\ ustate'[p] = "open" => ustate[p] = "open"
          /\ ~Down(Peer(p))' => ~Down(Peer(p))
      BY <1>4, IntakeGate, SourceGate, DownGate
    <2>5. ASSUME w = [i \in 1..(f - c) |-> c + i]
          PROVE  Append(w, f + 1) = [i \in 1..((f + 1) - c) |-> c + i]
      <3> DEFINE n == f - c
      <3>1. n \in Nat /\ (f + 1) - c = n + 1 /\ f + 1 = c + (n + 1)
        BY <2>2
      <3>2. w = [i \in 1..n |-> c + i]
        BY <2>5
      <3> HIDE DEF n, f, w
      <3>3. Append(w, c + (n + 1)) = [i \in 1..(n + 1) |-> c + i]
        BY <3>1, <3>2
      <3> QED BY <3>1, <3>3
    <2> HIDE DEF f, w
    <2>6. c <= f + 1
      BY <2>2
    <2>7. Path(p, m, b, c)'
      BY <1>1, <2>1, <2>3, <2>4, <2>5, <2>6 DEF Path, f, w
    <2> QED BY <1>1, <1>3, <2>7 DEF PathKey, InOrder
  <1> QED BY <1>5, <1>6

\* The wired task puts the first message of a channel on the transport.
LEMMA PathMessage ==
  ASSUME TypeOK, TypeOK', OpenedOnce, [Next]_vars, PathInv, NEW s \in Side, WiredMessage(s)
  PROVE  PathInv'
  <1> USE DEF helperVars, halfVars
  <1>1. PICK j \in Key :
          \/ /\ j \in wired[s] /\ wbuf[s][j] # <<>> /\ Head(wbuf[s][j]) \in Nat \ {0}
             /\ wbuf' = [wbuf EXCEPT ![s][j] = Tail(@)]
             /\ Data(Mirror(j), Head(wbuf[s][j])) \in WiringEvent
             /\ Write(s, Data(Mirror(j), Head(wbuf[s][j])))
          \/ UNCHANGED <<wbuf, wstate, net>>
    BY MessageWrites
  <1>2. UNCHANGED <<arr, flushed, uq, broken, reader, wired>>
    BY DEF WiredMessage
  <1>3. CASE UNCHANGED <<wbuf, wstate, net>>
    BY <1>2, <1>3, KeptSame, PathStep
  <1>4. CASE /\ j \in wired[s] /\ wbuf[s][j] # <<>> /\ Head(wbuf[s][j]) \in Nat \ {0}
             /\ wbuf' = [wbuf EXCEPT ![s][j] = Tail(@)]
             /\ Data(Mirror(j), Head(wbuf[s][j])) \in WiringEvent
             /\ Write(s, Data(Mirror(j), Head(wbuf[s][j])))
    <2> DEFINE n == Head(wbuf[s][j])
               e == Data(Mirror(j), n)
    <2>1. net' = net \/ (~Down(s) /\ net' = [net EXCEPT ![s] = Append(@, e)])
      BY <1>4 DEF Write
    <2>2. wbuf \in [Side -> [Key -> Seq(Nat \ {0})]] /\ net \in [Side -> Seq(WiringEvent)]
      BY DEF TypeOK
    <2>3. \A m : IsData(e, m) <=> m = Mirror(j)
      BY NotData
    <2>4. e.n = n
      BY NotData
    <2>5. ~Down(s) => net' = [net EXCEPT ![s] = Append(@, e)]
      BY <1>4 DEF Write
    <2> HIDE DEF e, n
    <2> SUFFICES ASSUME NEW p \in Side, NEW m \in Key PROVE PathKey(p, m)'
      BY DEF PathInv
    <2>6. PathKey(p, m)
      BY DEF PathInv
    <2>7. /\ Peer(p) \in Side /\ Mirror(m) \in Key /\ arr'[p][m] = arr[p][m]
          /\ Flushed(p, m)' = Flushed(p, m) /\ Kept(uq[p], uq'[p], m)
      BY <1>2, PathTypes, KeptSame DEF Flushed
    <2>8. CASE ~(Peer(p) = s /\ Mirror(m) = j)
      <3>1. InChannel(p, m)' = InChannel(p, m)
        BY <1>4, <2>2, <2>7, <2>8 DEF InChannel
      <3>2. Peer(p) = s => ~IsData(e, m)
        BY <2>3, <2>8, MirrorKey
      <3>3. Kept(net[Peer(p)], net'[Peer(p)], m)
        <4>1. e \in WiringEvent
          BY <1>4 DEF e, n
        <4> QED BY <2>1, <2>7, <3>2, <4>1, KeptWrite
      <3> QED BY <2>6, <2>7, <3>1, <3>3, PathStill
    <2>9. CASE Peer(p) = s /\ Mirror(m) = j
      <3>1. CASE Down(s) \/ ~Intake(p, m) \/ ustate[p] # "open"
        <4>1. Down(s) => net' = net /\ Down(s)'
          BY <1>4, DownGate DEF Write
        <4>2. CASE Down(s)
          BY <2>6, <2>7, <2>9, <4>1, <4>2, KeptSame, PathStill
        <4>3. CASE ~Intake(p, m) \/ ustate[p] # "open"
          <5>1. PICK b \in Nat, c \in Nat : Path(p, m, b, c)
            BY <2>6 DEF PathKey
          <5>2. ~(Intake(p, m)' /\ ustate'[p] = "open") /\ (Intake(p, m)' => Intake(p, m))
            BY <4>3, IntakeGate, DownGate
          <5>3. Path(p, m, b, c)'
            BY <1>2, <2>7, <5>1, <5>2 DEF Path
          <5> QED BY <2>6, <2>7, <5>3 DEF PathKey, InOrder
        <4> QED BY <3>1, <4>2, <4>3
      <3>2. CASE ~Down(s) /\ Intake(p, m) /\ ustate[p] = "open"
        <4>1. PICK b \in Nat, c \in Nat : Path(p, m, b, c)
          BY <2>6 DEF PathKey
        <4> DEFINE f == Flushed(p, m)
                   w == InChannel(p, m)
        <4>2. Source(s, j)
          BY <1>4 DEF Source, RxAlive
        <4>3. /\ Carries(net[s], m, b, c) /\ w = [i \in 1..(f - c) |-> c + i]
              /\ b <= c /\ c <= f /\ f \in Nat
          BY <2>9, <3>2, <4>1, <4>2, PathTypes DEF Path
        <4>4. w = wbuf[s][j] /\ w # <<>> /\ n = Head(w) /\ InChannel(p, m)' = Tail(w)
          BY <1>4, <2>2, <2>9 DEF InChannel, n
        <4> HIDE DEF f, w
        <4>5. /\ n = c + 1 /\ c + 1 <= f
              /\ Tail(w) = [i \in 1..(f - (c + 1)) |-> (c + 1) + i]
          <5> DEFINE l == f - c
          <5>1. l \in Nat /\ w = [i \in 1..l |-> c + i]
            BY <4>3
          <5>2. l # 0
            BY <4>4, <5>1
          <5>3. f - (c + 1) = l - 1 /\ c + 1 <= f
            BY <4>3, <5>1, <5>2
          <5> HIDE DEF l
          <5>4. Head(w) = c + 1
            BY <5>1, <5>2
          <5>5. Tail(w) = [i \in 1..(l - 1) |-> (c + 1) + i]
            BY <5>1, <5>2
          <5> QED BY <4>4, <5>3, <5>4, <5>5
        <4>6. Carries(net'[s], m, b, c + 1)
          <5>1. net'[s] = Append(net[s], e)
            BY <2>2, <2>5, <3>2
          <5>2. e \in WiringEvent
            BY <1>4 DEF e, n
          <5>3. IsData(e, m)
            BY <2>3, <2>9, MirrorKey
          <5>4. net[s] \in Seq(WiringEvent)
            BY <2>2
          <5> QED BY <2>4, <4>3, <4>5, <5>1, <5>2, <5>3, <5>4, CarriesAppend
        <4>7. b <= c + 1
          BY <4>3
        <4>8. Path(p, m, b, c + 1)'
          <5>1. uq'[p] = uq[p] /\ Len(arr'[p][m]) = Len(arr[p][m]) /\ Flushed(p, m)' = f
            BY <1>2, <2>7 DEF f
          <5>2. Len(arr[p][m]) <= b /\ Carries(uq[p], m, Len(arr[p][m]), b)
            BY <3>2, <4>1 DEF Path
          <5>3. InChannel(p, m)' = [i \in 1..(f - (c + 1)) |-> (c + 1) + i]
            BY <4>4, <4>5
          <5> QED BY <2>9, <4>5, <4>6, <4>7, <5>1, <5>2, <5>3 DEF Path
        <4> QED BY <2>6, <2>7, <4>8 DEF PathKey, InOrder
      <3> QED BY <3>1, <3>2
    <2> QED BY <2>8, <2>9
  <1> QED BY <1>1, <1>3, <1>4

\* The reader passes a message on to the helper.
LEMMA PathRead ==
  ASSUME TypeOK, TypeOK', OpenedOnce, [Next]_vars, PathInv, NEW s \in Side, ReadMessage(s)
  PROVE  PathInv'
  <1> USE DEF wiredVars, halfVars
  <1> DEFINE q == net[Peer(s)]
             e == Head(q)
  <1>1. Reading(s, "data") /\ PushU(s, e) /\ UNCHANGED <<arr, flushed, wbuf>>
    BY DEF ReadMessage
  <1>2. /\ e \in UnwiredEvent /\ e.t = "data" /\ q # <<>> /\ q \in Seq(WiringEvent)
        /\ net'[Peer(s)] = Tail(q)
    BY <1>1, HeadNet, PathTypes, PeerSide DEF Reading, TypeOK
  <1>3. Peer(s) \in Side
    BY PeerSide
  <1> SUFFICES ASSUME NEW p \in Side, NEW m \in Key PROVE PathKey(p, m)'
    BY DEF PathInv
  <1>4. /\ PathKey(p, m) /\ Peer(p) \in Side /\ Mirror(m) \in Key /\ arr'[p][m] = arr[p][m]
        /\ Flushed(p, m)' = Flushed(p, m) /\ InChannel(p, m)' = InChannel(p, m)
    BY <1>1, PathTypes DEF PathInv, Flushed, InChannel
  <1>5. CASE ~(p = s /\ IsData(e, m))
    <2>1. Kept(uq[p], uq'[p], m)
      <3> HIDE DEF e
      <3> QED BY <1>1, <1>2, <1>5, KeptPush
    <2>2. Peer(p) = Peer(s) => p = s
      BY PeerSide
    <2>3. Kept(net[Peer(p)], net'[Peer(p)], m)
      BY <1>1, <1>4, <1>5, <2>2, KeptRead
    <2> QED BY <1>4, <2>1, <2>3, PathStill
  <1>6. CASE p = s /\ IsData(e, m)
    <2>1. CASE ~Intake(p, m)
      BY <1>4, <2>1, PathStill
    <2>2. CASE ustate[p] # "open"
      <3>1. uq'[p] = uq[p]
        BY <1>1, <1>6, <2>2 DEF PushU, Pushed
      <3> QED BY <1>4, <2>2, <3>1, KeptSame, PathStill
    <2>3. CASE Intake(p, m) /\ ustate[p] = "open"
      <3>1. PICK b \in Nat, c \in Nat : Path(p, m, b, c)
        BY <1>4 DEF PathKey
      <3> DEFINE a == Len(arr[p][m])
      <3>2. /\ Carries(uq[p], m, a, b) /\ Carries(q, m, b, c) /\ a <= b /\ b <= c
            /\ c <= Flushed(p, m) /\ a \in Nat
        BY <1>6, <2>3, <3>1, PathTypes DEF Path
      <3>3. e.n = b + 1 /\ b + 1 <= c /\ Carries(Tail(q), m, b + 1, c)
        BY <1>2, <1>6, <3>2, CarriesTail
      <3>4. Carries(uq'[p], m, a, b + 1)
        <4> HIDE DEF e, a
        <4>1. uq[p] \in Seq(UnwiredEvent) /\ uq'[p] = Append(uq[p], e)
          BY <1>1, <1>6, <2>3 DEF PushU, Pushed, TypeOK
        <4> QED BY <1>2, <1>6, <3>2, <3>3, <4>1, CarriesAppend
      <3>5. a <= b + 1
        BY <3>2
      <3>6. /\ Source(Peer(p), Mirror(m))' => Source(Peer(p), Mirror(m))
            /\ ~Down(Peer(p))' => ~Down(Peer(p))
        BY <1>4, SourceGate, DownGate
      <3>7. Path(p, m, b + 1, c)'
        BY <1>2, <1>4, <1>6, <2>3, <3>1, <3>2, <3>3, <3>4, <3>5, <3>6 DEF Path
      <3> QED BY <1>4, <3>7 DEF PathKey, InOrder
    <2> QED BY <2>1, <2>2, <2>3
  <1> QED BY <1>5, <1>6

\* The helper gives a message to the read half, or throws it away for good.
LEMMA PathDeliver ==
  ASSUME TypeOK, TypeOK', OpenedOnce, OrderedQueues, [Next]_vars, PathInv, NEW s \in Side,
         HelperMessage(s)
  PROVE  PathInv'
  <1> USE DEF wiredVars, netVars, halfVars
  <1>1. /\ HelperAt(s, "data") /\ UNCHANGED <<flushed, wbuf, net, helper, rh>>
        /\ uq[s] # <<>> /\ uq[s] \in Seq(UnwiredEvent)
        /\ Head(uq[s]).t = "data" /\ Head(uq[s]).k \in Key /\ Head(uq[s]).n \in Nat \ {0}
    BY HeadU DEF HelperMessage, TypeOK
  <1> PICK j \in Key, n \in Nat \ {0} : j = Head(uq[s]).k /\ n = Head(uq[s]).n
    BY <1>1
  <1>2. arr' = IF j \in helper[s] /\ rh[s][j] = "open"
               THEN [arr EXCEPT ![s][j] = Append(@, n)] ELSE arr
    BY DEF HelperMessage
  <1>3. arr \in [Side -> [Key -> Seq(Nat \ {0})]] /\ uq'[s] = Tail(uq[s])
    BY <1>1 DEF TypeOK, HelperAt
  <1>4. 1 \in DOMAIN uq[s] /\ uq[s][1] = Head(uq[s]) /\ \A i \in DOMAIN uq[s] : ~(i < 1)
    BY <1>1
  <1>5. About(uq[s][1], j) /\ \A k : uq[s][1] # Register(k)
    BY <1>1, <1>4 DEF About, Register
  <1>6. Opened(s, j)
    BY <1>4, <1>5, KnownOpened DEF Mentions
  <1> SUFFICES ASSUME NEW p \in Side, NEW m \in Key PROVE PathKey(p, m)'
    BY DEF PathInv
  <1>7. /\ PathKey(p, m) /\ Peer(p) \in Side /\ Mirror(m) \in Key
        /\ Flushed(p, m)' = Flushed(p, m) /\ InChannel(p, m)' = InChannel(p, m)
        /\ Kept(net[Peer(p)], net'[Peer(p)], m)
    BY <1>1, PathTypes, KeptSame DEF PathInv, Flushed, InChannel
  <1>8. CASE ~(p = s /\ m = j)
    <2>1. arr'[p][m] = arr[p][m]
      BY <1>2, <1>3, <1>8
    <2>2. p = s => ~IsData(Head(uq[s]), m)
      BY <1>8 DEF IsData
    <2>3. Kept(uq[p], uq'[p], m)
      BY <1>1, <2>2, KeptPop
    <2> QED BY <1>7, <2>1, <2>3, PathStill
  <1>9. CASE p = s /\ m = j
    <2>1. CASE ~Intake(p, m)
      <3>1. ~(j \in helper[s] /\ rh[s][j] = "open")
        BY <1>9, <2>1 DEF Intake, TxAlive
      <3>2. arr'[p][m] = arr[p][m]
        BY <1>2, <3>1
      <3> QED BY <1>7, <2>1, <3>2, PathStill
    <2>2. CASE Intake(p, m)
      <3>1. TxAlive(s, j) /\ rh[s][j] = "open"
        BY <1>6, <1>9, <2>2 DEF Intake
      <3>2. j \in helper[s]
        <4>1. Leads(uq[s], Register(j), j)
          BY DEF OrderedQueues, OrderedKey
        <4>2. ~Queued(uq[s], Register(j))
          BY <1>4, <1>5, <4>1 DEF Leads, Queued
        <4> QED BY <3>1, <4>2 DEF TxAlive
      <3> DEFINE a == Len(arr[p][m])
      <3>3. arr'[p][m] = Append(arr[p][m], n) /\ arr[p][m] \in Seq(Nat \ {0})
        BY <1>2, <1>3, <1>9, <3>1, <3>2
      <3>4. a \in Nat /\ Len(arr'[p][m]) = a + 1 /\ arr[p][m] = [i \in 1..a |-> i]
        BY <1>7, <3>3 DEF PathKey, InOrder
      <3>5. PICK b \in Nat, c \in Nat : Path(p, m, b, c)
        BY <1>7 DEF PathKey
      <3>6. Carries(uq[s], m, a, b)
        BY <1>9, <2>2, <3>5 DEF Path
      <3> HIDE DEF a
      <3>7. n = a + 1 /\ a + 1 <= b /\ Carries(uq'[s], m, a + 1, b)
        <4>1. IsData(Head(uq[s]), m)
          BY <1>1, <1>9 DEF IsData
        <4> QED BY <1>1, <1>3, <3>4, <3>6, <4>1, CarriesTail
      <3>8. InOrder(p, m)'
        <4>1. Append(arr[p][m], a + 1) = [i \in 1..(a + 1) |-> i]
          BY <3>4
        <4> QED BY <3>3, <3>4, <3>7, <4>1 DEF InOrder
      <3>9. /\ Intake(p, m)' => Intake(p, m)
            /\ Source(Peer(p), Mirror(m))' => Source(Peer(p), Mirror(m))
            /\ ustate'[p] = "open" => ustate[p] = "open"
            /\ ~Down(Peer(p))' => ~Down(Peer(p))
        BY <1>7, IntakeGate, SourceGate, DownGate
      <3>10. Path(p, m, b, c)'
        BY <1>1, <1>7, <1>9, <3>4, <3>5, <3>7, <3>9 DEF Path
      <3> QED BY <3>8, <3>10 DEF PathKey
    <2> QED BY <2>1, <2>2
  <1> QED BY <1>8, <1>9

\* What the failure of the connection leaves of the frames is still in order.
LEMMA PathBreak ==
  ASSUME TypeOK, TypeOK', OpenedOnce, [Next]_vars, PathInv, Break
  PROVE  PathInv'
  <1> USE DEF wiredVars, helperVars, halfVars
  <1>1. UNCHANGED <<arr, flushed, uq, ustate>> /\ broken' = TRUE
    BY DEF Break
  <1> SUFFICES ASSUME NEW p \in Side, NEW m \in Key PROVE PathKey(p, m)'
    BY DEF PathInv
  <1>2. PathKey(p, m)
    BY DEF PathInv
  <1>3. PICK b \in Nat, c \in Nat : Path(p, m, b, c)
    BY <1>2 DEF PathKey
  <1>4. /\ Peer(p) \in Side /\ net[Peer(p)] \in Seq(WiringEvent)
        /\ Flushed(p, m)' = Flushed(p, m) /\ Flushed(p, m) \in Nat
    BY <1>1, PathTypes DEF Flushed
  <1>5. b <= c /\ c <= Flushed(p, m)
    BY <1>3 DEF Path
  <1>6. PICK l \in 0..Len(net[Peer(p)]) : net'[Peer(p)] = SubSeq(net[Peer(p)], 1, l)
    BY <1>4, BreakNet
  <1>7. Down(Peer(p))'
    BY <1>1 DEF Down
  <1>8. (Intake(p, m)' => Intake(p, m)) /\ InOrder(p, m)'
    BY <1>1, <1>2, IntakeGate DEF PathKey, InOrder
  <1>9. CASE ~(Intake(p, m) /\ ustate[p] = "open")
    <2>1. Path(p, m, b, c)'
      BY <1>1, <1>3, <1>4, <1>7, <1>8, <1>9 DEF Path
    <2> QED BY <1>8, <2>1 DEF PathKey
  <1>10. CASE Intake(p, m) /\ ustate[p] = "open"
    <2>1. Carries(net[Peer(p)], m, b, c)
      BY <1>3, <1>10 DEF Path
    <2>2. PICK d \in b..c : Carries(net'[Peer(p)], m, b, d)
      BY <1>4, <1>5, <1>6, <2>1, CarriesPrefix
    <2>3. d \in Nat /\ b <= d /\ d <= Flushed(p, m)
      BY <1>4, <1>5
    <2>4. Path(p, m, b, d)'
      BY <1>1, <1>3, <1>4, <1>7, <1>8, <2>2, <2>3 DEF Path
    <2> QED BY <1>8, <2>3, <2>4 DEF PathKey
  <1> QED BY <1>9, <1>10

LEMMA PathInit == ASSUME Init PROVE PathInv
  <1> SUFFICES ASSUME NEW p \in Side, NEW m \in Key PROVE PathKey(p, m)
    BY DEF PathInv
  <1>1. Peer(p) \in Side /\ Mirror(m) \in Key
    BY PeerSide, MirrorKey
  <1>2. /\ arr[p][m] = <<>> /\ uq[p] = <<>> /\ net[Peer(p)] = <<>>
        /\ Flushed(p, m) = 0 /\ InChannel(p, m) = <<>>
    BY <1>1 DEF Init, PerKey, Flushed, InChannel
  <1>3. Len(arr[p][m]) = 0 /\ <<>> = [i \in 1..0 |-> i] /\ <<>> = [i \in 1..(0 - 0) |-> 0 + i]
    BY <1>2
  <1>4. Carries(<<>>, m, 0, 0)
    BY CarriesEmpty
  <1>5. InOrder(p, m) /\ Path(p, m, 0, 0)
    BY <1>2, <1>3, <1>4 DEF InOrder, Path
  <1> QED BY <1>5 DEF PathKey

LEMMA PathNext ==
  ASSUME TypeOK, TypeOK', OpenedOnce, OrderedQueues, PathInv, [Next]_vars
  PROVE  PathInv'
  <1>1. CASE UNCHANGED vars
    <2>1. UNCHANGED <<arr, flushed, uq, net, wbuf>>
      BY <1>1 DEF vars, wiredVars, helperVars, netVars, halfVars
    <2> QED BY <2>1, KeptSame, PathStep
  <1>2. ASSUME NEW s \in Side, WiredStep(s) PROVE PathInv'
    BY <1>2, PathWired, PathMessage
  <1>3. ASSUME NEW s \in Side, ReaderStep(s) PROVE PathInv'
    BY <1>3, PathReader, PathRead
  <1>4. ASSUME NEW s \in Side, HelperStep(s) PROVE PathInv'
    BY <1>4, PathHelper, PathDeliver
  <1>5. ASSUME NEW s \in Side, AppStep(s) PROVE PathInv'
    <2>1. CASE \E k \in Key : FlushBegin(s, k)
      BY <2>1, PathFlush
    <2>2. CASE \A k \in Key : ~FlushBegin(s, k)
      BY <1>5, <2>2, PathApp
    <2> QED BY <2>1, <2>2
  <1> QED BY <1>1, <1>2, <1>3, <1>4, <1>5, PathBreak DEF Next

\* Whatever fails and whoever drops what, the messages of a stream that may still arrive go
\* on from where its read half has got to, without a gap and in order, from poll_flush over
\* the wired task, the transport and the reader to the helper.
THEOREM MessagesOnPath == Spec => []PathInv
  <1>1. Init => PathInv
    BY PathInit
  <1>2. TypeOK /\ TypeOK' /\ OpenedOnce /\ OrderedQueues /\ PathInv /\ [Next]_vars => PathInv'
    BY PathNext
  <1> QED BY <1>1, <1>2, TypeCorrect, StreamsOpenedOnce, QueuesOrdered, PTL DEF Spec

-----------------------------------------------------------------------------
(* The variables of StreamPipe, in terms of those of Wired.                 *)

PhaseOf(x, k) ==
  IF rh[x][k] = "none" THEN "new"
  ELSE IF rh[x][k] = "open" /\ TxAlive(x, k) THEN "open" ELSE "ended"

Phases == [d \in Direction |-> PhaseOf(d[1], d[2])]
Sents == [d \in Direction |-> Flushed(d[1], d[2])]
Receiveds == [d \in Direction |-> arr[d[1]][d[2]]]

LEMMA InDirection ==
  ASSUME NEW d \in Direction
  PROVE  d[1] \in Side /\ d[2] \in Key /\ d = <<d[1], d[2]>>
  BY DEF Direction

LEMMA TailQueued ==
  ASSUME NEW S, NEW q \in Seq(S), q # <<>>, NEW e, Head(q) # e
  PROVE  Queued(Tail(q), e) <=> Queued(q, e)
  <1> DEFINE r == Tail(q)
             h == Head(q)
  <1>1. /\ 1 \in DOMAIN q /\ q[1] = h
        /\ \A i \in DOMAIN r : i + 1 \in DOMAIN q /\ r[i] = q[i + 1]
        /\ \A i \in DOMAIN q : i = 1 \/ (i - 1 \in DOMAIN r /\ r[i - 1] = q[i])
        /\ h # e
    OBVIOUS
  <1> HIDE DEF r, h
  <1>2. Queued(r, e) <=> Queued(q, e)
    BY <1>1 DEF Queued
  <1> QED BY <1>2 DEF r

LEMMA AppendLast ==
  ASSUME NEW S, NEW q \in Seq(S), NEW e \in S
  PROVE  /\ Len(q) \in Nat /\ Len(Append(q, e)) = Len(q) + 1
         /\ Append(q, e)[Len(q) + 1] = e
  OBVIOUS

\* The steps of StreamPipe.
LEMMA PipeEnd ==
  ASSUME NEW D \in SUBSET Direction,
         Phases' = [d \in Direction |-> IF d \in D THEN "ended" ELSE Phases[d]],
         Sents' = Sents, Receiveds' = Receiveds
  PROVE  Pipe!Next
  <1>1. Pipe!End(D)
    BY DEF Pipe!End, Phases, PhaseOf, Sents, Flushed, Receiveds
  <1> QED BY <1>1 DEF Pipe!Next

LEMMA PipeOpen ==
  ASSUME NEW d \in Direction, Phases[d] = "new", Phases' = [Phases EXCEPT ![d] = "open"],
         Sents' = Sents, Receiveds' = Receiveds
  PROVE  Pipe!Next
  <1>1. Pipe!Open(d)
    BY DEF Pipe!Open, Phases, PhaseOf, Sents, Flushed, Receiveds
  <1> QED BY <1>1 DEF Pipe!Next

LEMMA PipeSend ==
  ASSUME NEW d \in Direction, Sents' = [Sents EXCEPT ![d] = @ + 1],
         Phases' = Phases, Receiveds' = Receiveds
  PROVE  Pipe!Next
  <1>1. Pipe!Send(d)
    BY DEF Pipe!Send, Phases, PhaseOf, Sents, Flushed, Receiveds
  <1> QED BY <1>1 DEF Pipe!Next

LEMMA PipeDeliver ==
  ASSUME NEW d \in Direction, Phases[d] = "open", Len(Receiveds[d]) < Sents[d],
         Receiveds' = [Receiveds EXCEPT ![d] = Append(@, Len(@) + 1)],
         Phases' = Phases, Sents' = Sents
  PROVE  Pipe!Next
  <1>1. Pipe!Deliver(d)
    BY DEF Pipe!Deliver, Phases, PhaseOf, Sents, Flushed, Receiveds
  <1> QED BY <1>1 DEF Pipe!Next

LEMMA PipeStutter ==
  ASSUME Phases' = Phases, Sents' = Sents, Receiveds' = Receiveds
  PROVE  UNCHANGED Pipe!pipe
  BY DEF Pipe!pipe, Phases, PhaseOf, Sents, Flushed, Receiveds

-----------------------------------------------------------------------------
(* Which steps of Wired they are.                                           *)

\* Only three steps open a read half; the others leave it alone or drop it.
LEMMA HalfGate ==
  ASSUME TypeOK, OpenedOnce, [Next]_vars, NEW x \in Side, NEW k \in Key, rh[x][k] = "none"
  PROVE  \/ rh'[x][k] = "none"
         \/ \E s \in Side, j \in Key, h \in {"open", "dropped"} : Opening(s, j, h)
  <1> USE DEF wiredVars, helperVars, netVars, halfVars
  <1>1. rh \in [Side -> [Key -> {"none", "open", "dropped"}]]
    BY DEF TypeOK
  <1>2. CASE UNCHANGED vars
    BY <1>2 DEF vars
  <1>3. ASSUME NEW s \in Side, WiredStep(s)
        PROVE  rh' = rh \/ WiredConnect(s) \/ WiredConnectFails(s)
    BY <1>3 DEF WiredStep, WiredNone, WiredEventFails, WiredEventDone, WiredRegister,
                WiredMessage, WiredDrop, WiredEnd
  <1>4. ASSUME NEW s \in Side, ReaderStep(s) PROVE rh' = rh \/ ReadOpen(s)
    BY <1>4 DEF ReaderStep, ReadEvent, ReadMessage, ReadDrop, ReadEnd, ReadJoin
  <1>5. ASSUME NEW s \in Side, HelperStep(s) PROVE rh' = rh
    BY <1>5 DEF HelperStep, HelperMessage, HelperRegister, HelperDrop, HelperNone, HelperEnd
  <1>6. ASSUME NEW s \in Side, AppStep(s) PROVE rh'[x][k] = "none"
    <2>1. rh' = rh \/ \E j \in Key : rh[s][j] = "open" /\ rh' = [rh EXCEPT ![s][j] = "dropped"]
      BY <1>6 DEF AppStep, Send, SendNone, Shutdown, Abort, AbandonShutdown, HalfStep, FlushBegin,
                  FlushEnd, ShutWrite, DropWrite, DropRead, PollRead, PollReadEof
    <2>2. CASE rh' = rh
      BY <2>2
    <2>3. ASSUME NEW j \in Key, rh[s][j] = "open", rh' = [rh EXCEPT ![s][j] = "dropped"]
          PROVE  rh'[x][k] = "none"
      <3>1. ~(x = s /\ k = j)
        BY <2>3
      <3> QED BY <1>1, <2>3, <3>1
    <2> QED BY <2>1, <2>2, <2>3
  <1>7. CASE Break
    BY <1>7 DEF Break
  <1> QED BY <1>2, <1>3, <1>4, <1>5, <1>6, <1>7, StepOpening DEF Next

\* Only poll_flush counts a message, only the helper hands one over.
LEMMA MessageSteps ==
  ASSUME [Next]_vars
  PROVE  \/ UNCHANGED <<arr, flushed>>
         \/ \E s \in Side : HelperMessage(s) \/ \E k \in Key : FlushBegin(s, k)
  <1> USE DEF wiredVars, helperVars, netVars, halfVars
  <1>1. CASE UNCHANGED vars
    BY <1>1 DEF vars
  <1>2. ASSUME NEW s \in Side, WiredStep(s) PROVE UNCHANGED <<arr, flushed>>
    BY <1>2 DEF WiredStep, WiredNone, WiredConnect, WiredConnectFails, WiredEventFails,
                WiredEventDone, WiredRegister, WiredMessage, WiredDrop, WiredEnd
  <1>3. ASSUME NEW s \in Side, ReaderStep(s) PROVE UNCHANGED <<arr, flushed>>
    BY <1>3 DEF ReaderStep, ReadOpen, ReadEvent, ReadMessage, ReadDrop, ReadEnd, ReadJoin
  <1>4. ASSUME NEW s \in Side, HelperStep(s)
        PROVE  UNCHANGED <<arr, flushed>> \/ HelperMessage(s)
    BY <1>4 DEF HelperStep, HelperRegister, HelperDrop, HelperNone, HelperEnd
  <1>5. ASSUME NEW s \in Side, AppStep(s)
        PROVE  UNCHANGED <<arr, flushed>> \/ \E k \in Key : FlushBegin(s, k)
    BY <1>5 DEF AppStep, Send, SendNone, Shutdown, Abort, AbandonShutdown, HalfStep, FlushEnd,
                ShutWrite, DropWrite, DropRead, PollRead, PollReadEof
  <1>6. CASE Break
    BY <1>6 DEF Break
  <1> QED BY <1>1, <1>2, <1>3, <1>4, <1>5, <1>6 DEF Next

\* A step that opens no stream ends some directions and leaves the others as they are.
LEMMA PhaseGate ==
  ASSUME TypeOK, OpenedOnce, OrderedQueues, [Next]_vars,
         ~\E s \in Side, j \in Key, h \in {"open", "dropped"} : Opening(s, j, h),
         NEW x \in Side, NEW k \in Key
  PROVE  PhaseOf(x, k)' = PhaseOf(x, k) \/ PhaseOf(x, k)' = "ended"
  <1>1. CASE rh[x][k] = "none"
    <2>1. rh'[x][k] = "none"
      BY <1>1, HalfGate
    <2> QED BY <1>1, <2>1 DEF PhaseOf
  <1>2. CASE rh[x][k] # "none"
    <2>1. Opened(x, k)
      BY <1>2, KnownOpened
    <2>2. TxKeeps(x, k) /\ (rh'[x][k] = rh[x][k] \/ rh'[x][k] = "dropped")
      BY <2>1, TxGate
    <2> QED BY <1>2, <2>2 DEF PhaseOf, TxKeeps
  <1> QED BY <1>1, <1>2

LEMMA SameMessages ==
  ASSUME UNCHANGED <<arr, flushed>>
  PROVE  Sents' = Sents /\ Receiveds' = Receiveds
  BY DEF Sents, Flushed, Receiveds

-----------------------------------------------------------------------------
(* The step of StreamPipe for each step of Wired.                           *)

\* A direction opens, or ends at once when the helper's queue is closed.
LEMMA OpeningPipe ==
  ASSUME TypeOK, OpenedOnce, NEW s \in Side, NEW j \in Key, NEW h \in {"open", "dropped"},
         Opening(s, j, h)
  PROVE  Pipe!Next
  <1> DEFINE o == <<s, j>>
  <1>1. /\ ~Opened(s, j) /\ PushU(s, Register(j)) /\ helper' = helper
        /\ rh' = [rh EXCEPT ![s][j] = h] /\ UNCHANGED <<arr, flushed>>
    BY DEF Opening
  <1>2. /\ rh \in [Side -> [Key -> {"none", "open", "dropped"}]]
        /\ uq \in [Side -> Seq(UnwiredEvent)]
    BY DEF TypeOK
  <1>3. rh[s][j] = "none"
    BY <1>1 DEF OpenedOnce, EntersOnce, Unknown
  <1>4. Sents' = Sents /\ Receiveds' = Receiveds
    BY <1>1, SameMessages
  <1>5. ASSUME NEW x \in Side, NEW k \in Key, ~(x = s /\ k = j)
        PROVE  PhaseOf(x, k)' = PhaseOf(x, k)
    <2>1. rh'[x][k] = rh[x][k]
      BY <1>1, <1>2, <1>5
    <2>2. Queued(uq'[x], Register(k)) <=> Queued(uq[x], Register(k))
      <3>1. uq'[x] = uq[x] \/ (x = s /\ uq'[x] = Append(uq[x], Register(j)))
        BY <1>1, <1>2 DEF PushU, Pushed
      <3>2. CASE x = s /\ uq'[x] = Append(uq[x], Register(j))
        <4>1. Register(j) # Register(k) /\ uq[x] \in Seq(UnwiredEvent)
          BY <1>2, <1>5, <3>2, Kinds2
        <4>2. /\ DOMAIN uq'[x] = DOMAIN uq[x] \cup {Len(uq[x]) + 1}
              /\ \A i \in DOMAIN uq[x] : uq'[x][i] = uq[x][i]
              /\ uq'[x][Len(uq[x]) + 1] = Register(j)
          BY <3>2, <4>1
        <4> QED BY <4>1, <4>2 DEF Queued
      <3> QED BY <3>1, <3>2
    <2> QED BY <1>1, <2>1, <2>2 DEF PhaseOf, TxAlive
  <1>6. o \in Direction /\ \A d \in Direction : d # o => ~(d[1] = s /\ d[2] = j)
    BY DEF Direction
  <1>7. \A d \in Direction : d # o => PhaseOf(d[1], d[2])' = PhaseOf(d[1], d[2])
    BY <1>5, <1>6, InDirection
  <1>8. PhaseOf(s, j)' \in {"open", "ended"} /\ PhaseOf(s, j) = "new"
    <2>1. rh'[s][j] = h
      BY <1>1, <1>2
    <2> QED BY <1>3, <2>1 DEF PhaseOf
  <1>9. o[1] = s /\ o[2] = j
    OBVIOUS
  <1> HIDE DEF o
  <1>10. CASE PhaseOf(s, j)' = "open"
    <2>1. Phases[o] = "new" /\ Phases' = [Phases EXCEPT ![o] = "open"]
      BY <1>6, <1>7, <1>8, <1>9, <1>10 DEF Phases
    <2> QED BY <1>4, <1>6, <2>1, PipeOpen
  <1>11. CASE PhaseOf(s, j)' = "ended"
    <2>1. Phases' = [d \in Direction |-> IF d \in {o} THEN "ended" ELSE Phases[d]]
      BY <1>6, <1>7, <1>8, <1>9, <1>11 DEF Phases
    <2> QED BY <1>4, <1>6, <2>1, PipeEnd
  <1> QED BY <1>8, <1>10, <1>11

LEMMA FlushPipe ==
  ASSUME TypeOK, NEW s \in Side, NEW k \in Key, FlushBegin(s, k)
  PROVE  Pipe!Next
  <1> DEFINE o == <<Peer(s), Mirror(k)>>
  <1>1. /\ UNCHANGED <<arr, rh, uq, helper>> /\ flushed' = [flushed EXCEPT ![s][k] = @ + 1]
        /\ flushed \in [Side -> [Key -> Nat]]
    BY DEF FlushBegin, helperVars, TypeOK
  <1>2. Phases' = Phases /\ Receiveds' = Receiveds
    BY <1>1 DEF Phases, PhaseOf, TxAlive, Receiveds
  <1>3. /\ Peer(s) \in Side /\ Peer(Peer(s)) = s /\ Mirror(k) \in Key /\ Mirror(Mirror(k)) = k
    BY PeerSide, MirrorKey
  <1>4. o \in Direction /\ o[1] = Peer(s) /\ o[2] = Mirror(k)
    BY <1>3 DEF Direction
  <1>5. Flushed(o[1], o[2])' = Flushed(o[1], o[2]) + 1
    BY <1>1, <1>3, <1>4 DEF Flushed
  <1>6. ASSUME NEW d \in Direction, d # o
        PROVE  Flushed(d[1], d[2])' = Flushed(d[1], d[2])
    <2>1. d[1] \in Side /\ d[2] \in Key /\ d = <<d[1], d[2]>>
      BY InDirection
    <2>2. /\ Peer(d[1]) \in Side /\ Mirror(d[2]) \in Key
          /\ Peer(Peer(d[1])) = d[1] /\ Mirror(Mirror(d[2])) = d[2]
      BY <2>1, PeerSide, MirrorKey
    <2>3. ~(Peer(d[1]) = s /\ Mirror(d[2]) = k)
      BY <1>6, <2>1, <2>2
    <2> QED BY <1>1, <2>2, <2>3 DEF Flushed
  <1> HIDE DEF o
  <1>7. Sents' = [Sents EXCEPT ![o] = @ + 1]
    BY <1>4, <1>5, <1>6 DEF Sents
  <1> QED BY <1>2, <1>4, <1>7, PipeSend

\* The helper hands over the message that is next, or throws it away.
LEMMA DeliverPipe ==
  ASSUME TypeOK, PathInv, PathInv', NEW s \in Side, HelperMessage(s)
  PROVE  Pipe!Next \/ UNCHANGED Pipe!pipe
  <1>1. /\ HelperAt(s, "data") /\ UNCHANGED <<flushed, helper, rh>>
        /\ uq[s] # <<>> /\ uq \in [Side -> Seq(UnwiredEvent)] /\ uq' = [uq EXCEPT ![s] = Tail(@)]
        /\ Head(uq[s]).t = "data" /\ Head(uq[s]).k \in Key /\ Head(uq[s]).n \in Nat \ {0}
    BY HeadU DEF HelperMessage, HelperAt, halfVars, TypeOK
  <1> PICK j \in Key, n \in Nat \ {0} : j = Head(uq[s]).k /\ n = Head(uq[s]).n
    BY <1>1
  <1>2. arr' = IF j \in helper[s] /\ rh[s][j] = "open"
               THEN [arr EXCEPT ![s][j] = Append(@, n)] ELSE arr
    BY DEF HelperMessage
  <1>3. ASSUME NEW x \in Side, NEW k \in Key PROVE PhaseOf(x, k)' = PhaseOf(x, k)
    <2>1. Queued(uq'[x], Register(k)) <=> Queued(uq[x], Register(k))
      <3>1. CASE x = s
        <4>1. uq'[s] = Tail(uq[s]) /\ uq[s] \in Seq(UnwiredEvent)
          BY <1>1
        <4>2. Head(uq[s]) # Register(k)
          BY <1>1 DEF Register
        <4> QED BY <1>1, <3>1, <4>1, <4>2, TailQueued
      <3>2. CASE x # s
        BY <1>1, <3>2
      <3> QED BY <3>1, <3>2
    <2> QED BY <1>1, <2>1 DEF PhaseOf, TxAlive
  <1>4. Phases' = Phases /\ Sents' = Sents
    BY <1>1, <1>3, InDirection DEF Phases, Sents, Flushed
  <1>5. CASE ~(j \in helper[s] /\ rh[s][j] = "open")
    BY <1>2, <1>4, <1>5, PipeStutter DEF Receiveds
  <1>6. CASE j \in helper[s] /\ rh[s][j] = "open"
    <2> DEFINE o == <<s, j>>
    <2>1. /\ arr' = [arr EXCEPT ![s][j] = Append(@, n)]
          /\ arr \in [Side -> [Key -> Seq(Nat \ {0})]]
      BY <1>2, <1>6 DEF TypeOK
    <2>2. /\ arr'[s][j] = Append(arr[s][j], n) /\ arr[s][j] \in Seq(Nat \ {0})
      BY <2>1
    <2>3. /\ Len(arr[s][j]) \in Nat /\ Len(arr'[s][j]) = Len(arr[s][j]) + 1
          /\ arr'[s][j][Len(arr[s][j]) + 1] = n
      <3>1. /\ Len(arr[s][j]) \in Nat /\ Len(Append(arr[s][j], n)) = Len(arr[s][j]) + 1
            /\ Append(arr[s][j], n)[Len(arr[s][j]) + 1] = n
        <4>1. \A q \in Seq(Nat \ {0}), e \in Nat \ {0} :
                /\ Len(q) \in Nat /\ Len(Append(q, e)) = Len(q) + 1
                /\ Append(q, e)[Len(q) + 1] = e
          BY AppendLast
        <4> QED BY <2>2, <4>1
      <3> QED BY <2>2, <3>1
    <2>4. InOrder(s, j)' /\ \E b, c \in Nat : Path(s, j, b, c)'
      BY DEF PathInv, PathKey
    <2>5. n = Len(arr[s][j]) + 1
      <3>1. PICK l \in Nat : l = Len(arr[s][j])
        BY <2>3
      <3>2. Len(arr'[s][j]) = l + 1 /\ arr'[s][j][l + 1] = n
        BY <2>3, <3>1
      <3>3. arr'[s][j] = [i \in 1..(l + 1) |-> i]
        BY <2>4, <3>2 DEF InOrder
      <3>4. l + 1 \in 1..(l + 1)
        OBVIOUS
      <3>5. arr'[s][j][l + 1] = l + 1
        BY <3>3, <3>4
      <3> QED BY <3>1, <3>2, <3>5
    <2>6. Len(arr[s][j]) < Flushed(s, j)
      <3>1. PICK b \in Nat, c \in Nat : Path(s, j, b, c)'
        BY <2>4
      <3>2. Len(arr'[s][j]) <= b /\ b <= c /\ c <= Flushed(s, j)'
        BY <3>1 DEF Path
      <3>3. Flushed(s, j)' = Flushed(s, j) /\ Flushed(s, j) \in Nat
        BY <1>1, PathTypes DEF Flushed
      <3> QED BY <2>3, <3>2, <3>3
    <2>7. o \in Direction /\ o[1] = s /\ o[2] = j
      BY DEF Direction
    <2>8. ASSUME NEW d \in Direction, d # o PROVE arr'[d[1]][d[2]] = arr[d[1]][d[2]]
      <3>1. d[1] \in Side /\ d[2] \in Key /\ ~(d[1] = s /\ d[2] = j)
        BY <2>8, InDirection
      <3> QED BY <2>1, <3>1
    <2> HIDE DEF o
    <2>9. Receiveds' = [Receiveds EXCEPT ![o] = Append(@, Len(@) + 1)]
      BY <2>2, <2>5, <2>7, <2>8 DEF Receiveds
    <2>10. Phases[o] = "open" /\ Len(Receiveds[o]) < Sents[o]
      BY <1>6, <2>6, <2>7 DEF Phases, PhaseOf, TxAlive, Receiveds, Sents
    <2> QED BY <1>4, <2>7, <2>9, <2>10, PipeDeliver
  <1> QED BY <1>5, <1>6

LEMMA PipeInit == Init => Pipe!Init
  <1> SUFFICES ASSUME Init PROVE Pipe!Init
    OBVIOUS
  <1>1. ASSUME NEW d \in Direction
        PROVE  /\ rh[d[1]][d[2]] = "none" /\ arr[d[1]][d[2]] = <<>>
               /\ flushed[Peer(d[1])][Mirror(d[2])] = 0
    <2>1. d[1] \in Side /\ d[2] \in Key /\ Peer(d[1]) \in Side /\ Mirror(d[2]) \in Key
      BY InDirection, PeerSide, MirrorKey
    <2> QED BY <2>1 DEF Init, PerKey
  <1> QED BY <1>1 DEF Pipe!Init

LEMMA PipeStep ==
  TypeOK /\ OpenedOnce /\ OrderedQueues /\ PathInv /\ PathInv' /\ [Next]_vars
    => [Pipe!Next]_(Pipe!pipe)
  <1> SUFFICES ASSUME TypeOK, OpenedOnce, OrderedQueues, PathInv, PathInv', [Next]_vars
               PROVE  Pipe!Next \/ UNCHANGED Pipe!pipe
    OBVIOUS
  <1>1. CASE \E s \in Side, j \in Key, h \in {"open", "dropped"} : Opening(s, j, h)
    BY <1>1, OpeningPipe
  <1>2. CASE \E s \in Side : HelperMessage(s) \/ \E k \in Key : FlushBegin(s, k)
    BY <1>2, DeliverPipe, FlushPipe
  <1>3. CASE /\ ~\E s \in Side, j \in Key, h \in {"open", "dropped"} : Opening(s, j, h)
             /\ UNCHANGED <<arr, flushed>>
    <2> DEFINE D == {d \in Direction : PhaseOf(d[1], d[2])' = "ended"}
    <2>1. \A d \in Direction : \/ PhaseOf(d[1], d[2])' = PhaseOf(d[1], d[2])
                               \/ PhaseOf(d[1], d[2])' = "ended"
      BY <1>3, PhaseGate, InDirection
    <2>2. Phases' = [d \in Direction |-> IF d \in D THEN "ended" ELSE Phases[d]]
      BY <2>1 DEF Phases
    <2>3. D \in SUBSET Direction
      OBVIOUS
    <2> HIDE DEF D
    <2> QED BY <1>3, <2>2, <2>3, SameMessages, PipeEnd
  <1> QED BY <1>1, <1>2, <1>3, MessageSteps

\* Every wired stream implements StreamPipe in both directions, whatever fails and whoever
\* drops what: the messages flushed on one end are handed over on the other in order, none
\* skipped, none twice, until the direction ends, and it never comes back.
THEOREM StreamsArePipes == Spec => ImplementsPipe
  BY PipeInit, PipeStep, TypeCorrect, StreamsOpenedOnce, QueuesOrdered, MessagesOnPath, PTL
     DEF Spec, ImplementsPipe, Pipe!Spec

=============================================================================
