------------------------- MODULE WiredMessageProofs -------------------------
(* Proofs that each message event of Wired finds its data: the channel of a  *)
(* stream holds a message for every event queued for it.                     *)
EXTENDS WiredQueueProofs, FiniteSetTheorems

-----------------------------------------------------------------------------
(* How often a queue holds an entry.                                        *)

\* How often q holds e.
CountOf(q, e) == Cardinality({i \in DOMAIN q : q[i] = e})

LEMMA CountType ==
  ASSUME NEW S, NEW q \in Seq(S), NEW e
  PROVE  /\ CountOf(q, e) \in Nat /\ IsFiniteSet({i \in DOMAIN q : q[i] = e})
         /\ CountOf(q, e) = 0 <=> ~Queued(q, e)
  <1> DEFINE I == {i \in DOMAIN q : q[i] = e}
  <1>1. DOMAIN q = 1..Len(q) /\ Len(q) \in Nat
    OBVIOUS
  <1>2. IsFiniteSet(DOMAIN q)
    BY <1>1, FS_Interval
  <1>3. IsFiniteSet(I)
    BY <1>2, FS_Subset
  <1>4. Cardinality(I) \in Nat /\ (Cardinality(I) = 0 <=> I = {})
    BY <1>3, FS_CardinalityType, FS_EmptySet
  <1> QED BY <1>3, <1>4 DEF CountOf, Queued

LEMMA CountAppend ==
  ASSUME NEW S, NEW q \in Seq(S), NEW a \in S, NEW e
  PROVE  CountOf(Append(q, a), e) = CountOf(q, e) + (IF a = e THEN 1 ELSE 0)
  <1> DEFINE I == {i \in DOMAIN q : q[i] = e}
             J == {i \in DOMAIN Append(q, a) : Append(q, a)[i] = e}
             n == Len(q) + 1
  <1>1. IsFiniteSet(I) /\ CountOf(q, e) \in Nat
    BY CountType
  <1>2. n \notin I
    OBVIOUS
  <1>3. J = IF a = e THEN I \cup {n} ELSE I
    <2>1. ASSUME NEW i \in DOMAIN Append(q, a)
          PROVE  \/ i \in DOMAIN q /\ Append(q, a)[i] = q[i]
                 \/ i = n /\ i \notin DOMAIN q /\ Append(q, a)[i] = a
      OBVIOUS
    <2>2. n \in DOMAIN Append(q, a) /\ DOMAIN q \subseteq DOMAIN Append(q, a)
      OBVIOUS
    <2> QED BY <2>1, <2>2
  <1>4. Cardinality(I \cup {n}) = Cardinality(I) + 1
    BY <1>1, <1>2, FS_AddElement
  <1>5. CountOf(q, e) = Cardinality(I) /\ CountOf(Append(q, a), e) = Cardinality(J)
    BY DEF CountOf
  <1> HIDE DEF I, J, n
  <1> QED BY <1>1, <1>3, <1>4, <1>5

LEMMA CountTail ==
  ASSUME NEW S, NEW q \in Seq(S), q # <<>>, NEW e
  PROVE  CountOf(q, e) = CountOf(Tail(q), e) + (IF Head(q) = e THEN 1 ELSE 0)
  <1> DEFINE r == Tail(q)
             I == {i \in DOMAIN q : q[i] = e}
             J == {i \in DOMAIN r : r[i] = e}
             f == [i \in J |-> i + 1]
             K == I \ {1}
  <1>1. /\ r \in Seq(S) /\ 1 \in DOMAIN q /\ Head(q) = q[1]
        /\ \A i \in DOMAIN r : i + 1 \in DOMAIN q /\ r[i] = q[i + 1] /\ i \in Nat /\ i + 1 # 1
        /\ \A i \in DOMAIN q : i # 1 => i - 1 \in DOMAIN r /\ i \in Nat /\ (i - 1) + 1 = i
    OBVIOUS
  <1>2. CountOf(q, e) = Cardinality(I) /\ CountOf(r, e) = Cardinality(J)
    BY DEF CountOf
  <1> HIDE DEF r
  <1>3. IsFiniteSet(J) /\ IsFiniteSet(I) /\ Cardinality(J) \in Nat /\ Cardinality(I) \in Nat
    <2>0. r \in Seq(S)
      BY <1>1
    <2>1. CountOf(r, e) \in Nat /\ IsFiniteSet({i \in DOMAIN r : r[i] = e})
      BY <2>0, CountType
    <2>2. CountOf(q, e) \in Nat /\ IsFiniteSet({i \in DOMAIN q : q[i] = e})
      BY CountType
    <2> QED BY <1>2, <2>1, <2>2
  <1>4. f \in Bijection(J, K)
    <2>1. f \in [J -> K]
      BY <1>1
    <2>2. \A i, j \in J : f[i] = f[j] => i = j
      BY <1>1
    <2>3. \A i \in K : \E j \in J : f[j] = i
      <3> SUFFICES ASSUME NEW i \in K PROVE \E j \in J : f[j] = i
        OBVIOUS
      <3>1. i - 1 \in DOMAIN r /\ (i - 1) + 1 = i /\ r[i - 1] = q[i]
        BY <1>1
      <3>2. i - 1 \in J
        BY <3>1
      <3> QED BY <3>1, <3>2
    <2> QED BY <2>1, <2>2, <2>3 DEF Bijection, Injection, Surjection, IsInjective
  <1>5. Cardinality(K) = Cardinality(J)
    BY <1>3, <1>4, FS_Bijection DEF ExistsBijection
  <1>6. Cardinality(K) = IF 1 \in I THEN Cardinality(I) - 1 ELSE Cardinality(I)
    BY <1>3, FS_RemoveElement
  <1>7. 1 \in I <=> Head(q) = e
    BY <1>1
  <1> HIDE DEF I, J, K, f
  <1>8. Cardinality(I) = Cardinality(J) + (IF Head(q) = e THEN 1 ELSE 0)
    BY <1>3, <1>5, <1>6, <1>7
  <1> QED BY <1>2, <1>8 DEF r

LEMMA CountHead ==
  ASSUME NEW S, NEW q \in Seq(S), q # <<>>, NEW a, NEW e, a # e, Head(q) # e
  PROVE  CountOf([q EXCEPT ![1] = a], e) = CountOf(q, e)
  <1>1. 1 \in DOMAIN q /\ Head(q) = q[1]
    OBVIOUS
  <1>2. {i \in DOMAIN [q EXCEPT ![1] = a] : [q EXCEPT ![1] = a][i] = e} = {i \in DOMAIN q : q[i] = e}
    BY <1>1
  <1> QED BY <1>2 DEF CountOf

-----------------------------------------------------------------------------
(* The invariant.                                                           *)

\* The messages of stream k that are announced to the wired task, or about to be.
Due(s, k) == CountOf(wq[s], Message(k)) + (IF pend[s][k] THEN 1 ELSE 0)

\* No message event is short of its data; and while the W queue is open every message in
\* the stream's channel has its event.
AnnouncedKey(s, k) ==
  RxAlive(s, k) => /\ Due(s, k) <= Len(wbuf[s][k])
                   /\ wstate[s] = "open" => Due(s, k) = Len(wbuf[s][k])

Announced == \A s \in Side, k \in Key : AnnouncedKey(s, k)

\* What a step leaves alone when it has nothing to do with the messages of stream k.
RxKeeps(x, k) == RxAlive(x, k)' => RxAlive(x, k)
StateKeeps(x) == wstate'[x] = "open" => wstate[x] = "open"
CountKeeps(x, k) == CountOf(wq'[x], Message(k)) = CountOf(wq[x], Message(k))

LEMMA AnnouncedStep ==
  ASSUME NEW x \in Side, NEW k \in Key, AnnouncedKey(x, k),
         RxKeeps(x, k), StateKeeps(x),
         RxAlive(x, k)' => CountKeeps(x, k) /\ pend'[x][k] = pend[x][k]
                             /\ wbuf'[x][k] = wbuf[x][k]
  PROVE  AnnouncedKey(x, k)'
  BY DEF AnnouncedKey, RxKeeps, StateKeeps, CountKeeps, Due

LEMMA RxStill ==
  ASSUME NEW x \in Side, NEW k \in Key, wired'[x] \subseteq wired[x],
         NoneAdded(wq[x], wq'[x], Register(k))
  PROVE  RxKeeps(x, k)
  BY DEF RxKeeps, RxAlive, NoneAdded

LEMMA WriteState ==
  ASSUME TypeOK, NEW s \in Side, NEW f, Write(s, f), NEW x \in Side
  PROVE  StateKeeps(x)
  BY DEF Write, StateKeeps, TypeOK

\* A push of anything but a registration or a message of stream k.
LEMMA PushAnnounced ==
  ASSUME TypeOK, NEW s \in Side, NEW e \in WiredEvent, PushW(s, e),
         NEW x \in Side, NEW k \in Key, wired'[x] \subseteq wired[x]
  PROVE  /\ x # s \/ e # Message(k) => CountKeeps(x, k)
         /\ x # s \/ e # Register(k) => RxKeeps(x, k)
         /\ x = s /\ e = Message(k) /\ wstate[s] = "open" =>
              CountOf(wq'[x], Message(k)) = CountOf(wq[x], Message(k)) + 1
         /\ x = s /\ wstate[s] # "open" => CountKeeps(x, k)
  <1>1. wq \in [Side -> Seq(WiredEvent)] /\ wq[x] \in Seq(WiredEvent)
    BY DEF TypeOK
  <1>2. \/ wq'[x] = wq[x] /\ (x # s \/ wstate[s] # "open")
        \/ x = s /\ wstate[s] = "open" /\ wq'[x] = Append(wq[x], e)
    BY <1>1 DEF PushW, Pushed
  <1>3. e \in WiredEvent /\ wq[x] \in Seq(WiredEvent)
    BY <1>1
  <1>4. CountOf(Append(wq[x], e), Message(k))
          = CountOf(wq[x], Message(k)) + (IF e = Message(k) THEN 1 ELSE 0)
    BY <1>3, CountAppend
  <1>5. CountOf(wq[x], Message(k)) \in Nat
    BY <1>3, CountType
  <1>6. x # s \/ e # Register(k) => NoneAdded(wq[x], wq'[x], Register(k))
    BY PushAdds
  <1>7. x # s \/ e # Register(k) => RxKeeps(x, k)
    BY <1>6, RxStill
  <1>8. CASE wq'[x] = wq[x] /\ (x # s \/ wstate[s] # "open")
    BY <1>7, <1>8 DEF CountKeeps
  <1>9. CASE x = s /\ wstate[s] = "open" /\ wq'[x] = Append(wq[x], e)
    <2>1. CountOf(wq'[x], Message(k))
            = CountOf(wq[x], Message(k)) + (IF e = Message(k) THEN 1 ELSE 0)
      BY <1>4, <1>9
    <2>2. e # Message(k) => CountOf(wq'[x], Message(k)) = CountOf(wq[x], Message(k))
      BY <1>5, <2>1
    <2>3. e = Message(k) => CountOf(wq'[x], Message(k)) = CountOf(wq[x], Message(k)) + 1
      BY <2>1
    <2> QED BY <1>7, <1>9, <2>2, <2>3 DEF CountKeeps
  <1> QED BY <1>2, <1>8, <1>9

\* A pop of anything but a message of stream k, and of that.
LEMMA PopAnnounced ==
  ASSUME TypeOK, NEW s \in Side, wq[s] # <<>>, PopW(s), NEW x \in Side, NEW k \in Key
  PROVE  /\ x # s \/ Head(wq[s]) # Message(k) => CountKeeps(x, k)
         /\ wired'[x] \subseteq wired[x] => RxKeeps(x, k)
         /\ x = s /\ Head(wq[s]) = Message(k) =>
              CountOf(wq[x], Message(k)) = CountOf(wq'[x], Message(k)) + 1
  <1>1. wq \in [Side -> Seq(WiredEvent)] /\ wq[x] \in Seq(WiredEvent)
    BY DEF TypeOK
  <1>2. \/ x # s /\ wq'[x] = wq[x]
        \/ x = s /\ wq[x] # <<>> /\ wq'[x] = Tail(wq[x])
    BY <1>1 DEF PopW
  <1>3. wq[x] # <<>> => Tail(wq[x]) \in Seq(WiredEvent)
    BY <1>1
  <1>4. wq[x] # <<>> =>
          /\ CountOf(Tail(wq[x]), Message(k)) \in Nat
          /\ CountOf(wq[x], Message(k))
               = CountOf(Tail(wq[x]), Message(k)) + (IF Head(wq[x]) = Message(k) THEN 1 ELSE 0)
    BY <1>1, <1>3, CountType, CountTail
  <1>5. NoneAdded(wq[x], wq'[x], Register(k))
    BY <1>1, <1>2, TailAdds, SameAdds
  <1>6. wired'[x] \subseteq wired[x] => RxKeeps(x, k)
    BY <1>5, RxStill
  <1> QED BY <1>2, <1>4, <1>6 DEF CountKeeps

\* A step that leaves the W queues, Wired.streams and the channels alone.
LEMMA IdleAnnounced ==
  ASSUME Announced, UNCHANGED <<wq, wired, wbuf, pend>>, \A x \in Side : StateKeeps(x)
  PROVE  Announced'
  <1> SUFFICES ASSUME NEW x \in Side, NEW k \in Key PROVE AnnouncedKey(x, k)'
    BY DEF Announced
  <1>1. AnnouncedKey(x, k) /\ CountKeeps(x, k) /\ StateKeeps(x)
    BY DEF Announced, CountKeeps
  <1>2. RxKeeps(x, k)
    BY SameAdds, RxStill
  <1> QED BY <1>1, <1>2, AnnouncedStep

\* The application or another task queues something that is no message and no registration.
LEMMA QueuesAnnounced ==
  ASSUME TypeOK, Announced, NEW s \in Side, NEW e \in WiredEvent, PushW(s, e),
         \A k \in Key : e # Message(k) /\ e # Register(k),
         UNCHANGED <<wired, wbuf, pend, wstate>>
  PROVE  Announced'
  <1> SUFFICES ASSUME NEW x \in Side, NEW k \in Key PROVE AnnouncedKey(x, k)'
    BY DEF Announced
  <1>1. AnnouncedKey(x, k) /\ StateKeeps(x)
    BY DEF Announced, StateKeeps
  <1>2. wired'[x] \subseteq wired[x]
    OBVIOUS
  <1>3. CountKeeps(x, k) /\ RxKeeps(x, k)
    BY <1>2, PushAnnounced
  <1> QED BY <1>1, <1>3, AnnouncedStep

\* A registration that is taken leaves the stream's rx alive, and no other.
LEMMA RegisterRx ==
  ASSUME TypeOK, NEW s \in Side, WiredRegister(s), NEW x \in Side, NEW k \in Key
  PROVE  RxKeeps(x, k)
  <1>1. /\ WiredAt(s, "register") /\ wq[s] # <<>> /\ PopW(s)
        /\ wired' = [wired EXCEPT ![s] = @ \cup {Head(wq[s]).k}]
    BY DEF WiredRegister, WiredAt
  <1>2. /\ Head(wq[s]) \in WiredEvent /\ Head(wq[s]).t = "register"
        /\ wq[s] \in Seq(WiredEvent) /\ wired \in [Side -> SUBSET Key]
    BY <1>1, HeadW DEF TypeOK
  <1>3. CASE x = s /\ k = Head(wq[s]).k
    <2>1. Head(wq[s]) = Register(k)
      BY <1>2, <1>3 DEF WiredEvent, None, Register
    <2>2. Queued(wq[s], Register(k))
      BY <1>1, <1>2, <2>1, TailAdds
    <2> QED BY <1>3, <2>2 DEF RxKeeps, RxAlive
  <1>4. CASE ~(x = s /\ k = Head(wq[s]).k)
    <2>1. k \in wired'[x] => k \in wired[x]
      BY <1>1, <1>2, <1>4
    <2>2. NoneAdded(wq[x], wq'[x], Register(k))
      BY <1>1, PopHarmless DEF NoEntry
    <2> QED BY <2>1, <2>2 DEF RxKeeps, RxAlive, NoneAdded
  <1> QED BY <1>3, <1>4

LEMMA AnnouncedWired ==
  ASSUME TypeOK, OpenedOnce, OrderedQueues, Announced, NEW s \in Side,
         \/ WiredNone(s) \/ WiredEventFails(s) \/ WiredEventDone(s) \/ WiredRegister(s)
         \/ WiredEnd(s)
  PROVE  Announced'
  <1> USE DEF wiredVars, helperVars, netVars, halfVars
  <1> SUFFICES ASSUME NEW x \in Side, NEW k \in Key PROVE AnnouncedKey(x, k)'
    BY DEF Announced
  <1>1. AnnouncedKey(x, k)
    BY DEF Announced
  <1>2. wstate \in [Side -> {"open", "closed", "done"}] /\ wired \in [Side -> SUBSET Key]
        /\ wbuf \in [Side -> [Key -> Seq(Nat \ {0})]]
    BY DEF TypeOK
  <1>3. CASE WiredNone(s) \/ WiredEventFails(s) \/ WiredEventDone(s)
    <2>1. /\ wq[s] # <<>> /\ PopW(s) /\ UNCHANGED <<wired, wbuf, pend>>
          /\ Head(wq[s]).t # "message"
      BY <1>3 DEF WiredNone, WiredEventFails, WiredEventDone, WiredAt
    <2>2. StateKeeps(x)
      BY <1>2, <1>3, WriteState DEF WiredNone, WiredEventFails, WiredEventDone, StateKeeps
    <2>3. Head(wq[s]) # Message(k)
      BY <2>1, Kinds2
    <2>4. wired'[x] \subseteq wired[x]
      BY <2>1
    <2>5. CountKeeps(x, k) /\ RxKeeps(x, k)
      BY <2>1, <2>3, <2>4, PopAnnounced
    <2> QED BY <1>1, <2>1, <2>2, <2>5, AnnouncedStep
  <1>4. CASE WiredRegister(s)
    <2>1. /\ WiredAt(s, "register") /\ wq[s] # <<>> /\ PopW(s)
          /\ UNCHANGED <<wbuf, pend, wstate>>
          /\ wired' = [wired EXCEPT ![s] = @ \cup {Head(wq[s]).k}]
      BY <1>4 DEF WiredRegister, WiredAt
    <2>2. /\ Head(wq[s]) \in WiredEvent /\ Head(wq[s]).t = "register"
          /\ wq[s] \in Seq(WiredEvent)
      BY <2>1, HeadW
    <2>3. Head(wq[s]) # Message(k)
      BY <2>2, Kinds2
    <2>4. CountKeeps(x, k)
      BY <2>1, <2>3, PopAnnounced
    <2>5. RxKeeps(x, k)
      BY <1>4, RegisterRx
    <2>6. StateKeeps(x)
      BY <2>1 DEF StateKeeps
    <2> QED BY <1>1, <2>1, <2>4, <2>5, <2>6, AnnouncedStep
  <1>5. CASE WiredEnd(s)
    <2>1. /\ wq[s] = <<>> /\ UNCHANGED <<wq, pend>>
          /\ wired' = [wired EXCEPT ![s] = {}]
          /\ wstate' = [wstate EXCEPT ![s] = "done"]
          /\ wbuf' = [wbuf EXCEPT ![s] = [j \in Key |-> <<>>]]
      BY <1>5 DEF WiredEnd
    <2>2. CASE x = s
      <3>1. ~RxAlive(x, k)'
        BY <1>2, <2>1, <2>2 DEF RxAlive, Queued
      <3> QED BY <3>1 DEF AnnouncedKey
    <2>3. CASE x # s
      <3>1. /\ wired'[x] = wired[x] /\ wstate'[x] = wstate[x] /\ wbuf'[x][k] = wbuf[x][k]
            /\ wq'[x] = wq[x] /\ pend'[x][k] = pend[x][k]
        BY <1>2, <2>1, <2>3
      <3>2. CountKeeps(x, k) /\ StateKeeps(x) /\ RxKeeps(x, k)
        BY <3>1 DEF CountKeeps, StateKeeps, RxKeeps, RxAlive
      <3> QED BY <1>1, <3>1, <3>2, AnnouncedStep
    <2> QED BY <2>2, <2>3
  <1> QED BY <1>3, <1>4, <1>5

\* The wired task takes the data of one message with the event that announces it.
LEMMA AnnouncedMessage ==
  ASSUME TypeOK, OpenedOnce, OrderedQueues, Announced, NEW s \in Side, WiredMessage(s)
  PROVE  Announced'
  <1> USE DEF helperVars, halfVars
  <1> DEFINE j == Head(wq[s]).k
  <1>1. /\ WiredAt(s, "message") /\ wq[s] # <<>> /\ PopW(s) /\ UNCHANGED <<wired, pend>>
    BY DEF WiredMessage, WiredAt
  <1>2. /\ j \in Key /\ wbuf \in [Side -> [Key -> Seq(Nat \ {0})]]
        /\ wq[s] \in Seq(WiredEvent) /\ Head(wq[s]) \in WiredEvent /\ Head(wq[s]).t = "message"
        /\ wq'[s] = Tail(wq[s]) /\ wq \in [Side -> Seq(WiredEvent)]
    <2>1. wq \in [Side -> Seq(WiredEvent)] /\ wbuf \in [Side -> [Key -> Seq(Nat \ {0})]]
      BY DEF TypeOK
    <2>2. /\ j \in Key /\ wq[s] \in Seq(WiredEvent)
          /\ Head(wq[s]) \in WiredEvent /\ Head(wq[s]).t = "message"
      BY <1>1, HeadW
    <2>3. wq'[s] = Tail(wq[s])
      BY <1>1, <2>1 DEF PopW
    <2> QED BY <2>1, <2>2, <2>3
  <1>3. Head(wq[s]) = Message(j) /\ About(Head(wq[s]), j)
    BY <1>2 DEF WiredEvent, None, Message, About
  <1>4. ASSUME NEW x \in Side PROVE StateKeeps(x)
    BY WriteState DEF WiredMessage, StateKeeps
  <1>5. \/ j \in wired[s] /\ wbuf[s][j] # <<>> /\ wbuf' = [wbuf EXCEPT ![s][j] = Tail(@)]
        \/ ~(j \in wired[s] /\ wbuf[s][j] # <<>>) /\ wbuf' = wbuf
    BY DEF WiredMessage
  <1> HIDE DEF j
  <1> SUFFICES ASSUME NEW x \in Side, NEW k \in Key PROVE AnnouncedKey(x, k)'
    BY DEF Announced
  <1>6. AnnouncedKey(x, k)
    BY DEF Announced
  <1>7. RxKeeps(x, k)
    <2>1. wired'[x] \subseteq wired[x]
      BY <1>1
    <2> QED BY <1>1, <2>1, PopAnnounced
  <1>8. CASE ~(x = s /\ k = j)
    <2>1. Head(wq[s]) # Message(k) \/ x # s
      <3>1. Message(j) = Message(k) => j = k
        BY NotAbout
      <3> QED BY <1>3, <1>8, <3>1
    <2>2. CountKeeps(x, k)
      BY <1>1, <2>1, PopAnnounced
    <2>3. wbuf'[x][k] = wbuf[x][k] /\ pend'[x][k] = pend[x][k]
      BY <1>1, <1>2, <1>5, <1>8
    <2> QED BY <1>4, <1>6, <1>7, <2>2, <2>3, AnnouncedStep
  <1>9. CASE x = s /\ k = j
    <2>1. Leads(wq[s], Register(k), k)
      BY <1>2, <1>9 DEF OrderedQueues, OrderedKey
    <2>2. ~Queued(wq'[s], Register(k))
      BY <1>1, <1>2, <1>3, <1>9, <2>1, CalmTail
    <2>3. CASE k \notin wired[s]
      <3>1. ~RxAlive(x, k)'
        BY <1>1, <1>9, <2>2, <2>3 DEF RxAlive
      <3> QED BY <3>1 DEF AnnouncedKey
    <2>4. CASE k \in wired[s]
      <3>1. CountOf(wq[s], Message(k)) = CountOf(wq'[s], Message(k)) + 1
        <4>1. Head(wq[s]) = Message(k)
          BY <1>3, <1>9
        <4> QED BY <1>1, <4>1, PopAnnounced
      <3>2. wq'[s] \in Seq(WiredEvent)
        BY <1>1, <1>2, <1>9
      <3>3. CountOf(wq'[s], Message(k)) \in Nat
        BY <3>2, CountType
      <3>4. wbuf[s][k] \in Seq(Nat \ {0}) /\ Len(wbuf[s][k]) \in Nat
        BY <1>2, <1>9
      <3>5. /\ Due(s, k) <= Len(wbuf[s][k])
            /\ wstate[s] = "open" => Due(s, k) = Len(wbuf[s][k])
        BY <1>6, <1>9, <2>4 DEF AnnouncedKey, RxAlive
      <3>6. /\ Due(s, k) = Due(s, k)' + 1 /\ Due(s, k)' \in Nat
        <4> DEFINE c == CountOf(wq'[s], Message(k))
                   d == IF pend[s][k] THEN 1 ELSE 0
        <4>1. c \in Nat /\ d \in Nat
          BY <3>3
        <4>2. Due(s, k)' = c + d
          BY <1>1, <1>9 DEF Due
        <4>3. Due(s, k) = (c + 1) + d
          BY <3>1 DEF Due
        <4> HIDE DEF c, d
        <4> QED BY <4>1, <4>2, <4>3
      <3>7. wbuf[s][k] # <<>>
        BY <3>4, <3>5, <3>6
      <3>8. wbuf'[s][k] = Tail(wbuf[s][k])
        BY <1>2, <1>5, <1>9, <2>4, <3>7
      <3>9. Len(wbuf'[s][k]) = Len(wbuf[s][k]) - 1
        BY <3>4, <3>7, <3>8
      <3>10. wstate'[s] = "open" => wstate[s] = "open"
        BY <1>4, <1>9 DEF StateKeeps
      <3>11. /\ Due(s, k)' <= Len(wbuf'[s][k])
             /\ wstate'[s] = "open" => Due(s, k)' = Len(wbuf'[s][k])
        <4> DEFINE a == Due(s, k)
                   b == Due(s, k)'
                   m == Len(wbuf[s][k])
                   n == Len(wbuf'[s][k])
        <4>1. a = b + 1 /\ b \in Nat /\ m \in Nat /\ n = m - 1
          BY <3>4, <3>6, <3>9
        <4>2. a <= m /\ (wstate'[s] = "open" => a = m)
          BY <3>5, <3>10
        <4> HIDE DEF a, b, m, n
        <4>3. b <= n /\ (wstate'[s] = "open" => b = n)
          BY <4>1, <4>2
        <4> QED BY <4>3 DEF b, n
      <3> QED BY <1>9, <3>11 DEF AnnouncedKey
    <2> QED BY <2>3, <2>4
  <1> QED BY <1>8, <1>9

LEMMA DropMessage ==
  ASSUME NEW j, NEW b, NEW k
  PROVE  Drop(j, b) # Message(k) /\ Drop(j, b) # Register(k)
  <1>1. Drop(j, b).t = "drop" /\ Message(k).t = "message" /\ Register(k).t = "register"
    BY DEF Drop, Message, Register
  <1> QED BY <1>1

\* A stream goes with the data in its channel.
LEMMA AnnouncedDrop ==
  ASSUME TypeOK, OpenedOnce, Announced, NEW s \in Side, WiredDrop(s)
  PROVE  Announced'
  <1> USE DEF helperVars, halfVars
  <1>1. WiredAt(s, "drop") /\ wq[s] # <<>> /\ PopW(s) /\ UNCHANGED pend
    BY DEF WiredDrop, WiredAt
  <1>2. Head(wq[s]).k \in Key /\ Head(wq[s]).t = "drop"
    BY <1>1, HeadW
  <1> PICK j \in Key : j = Head(wq[s]).k
    BY <1>2
  <1>3. /\ wired \in [Side -> SUBSET Key] /\ wbuf \in [Side -> [Key -> Seq(Nat \ {0})]]
        /\ wq[s] \in Seq(WiredEvent)
    BY DEF TypeOK
  <1>4. \/ /\ j \in wired[s] /\ wired' = [wired EXCEPT ![s] = @ \ {j}]
           /\ wbuf' = [wbuf EXCEPT ![s][j] = <<>>]
        \/ UNCHANGED <<wired, wbuf>>
    BY DEF WiredDrop, Dropped
  <1>5. ASSUME NEW x \in Side PROVE StateKeeps(x)
    BY WriteState DEF WiredDrop, Dropped, StateKeeps
  <1> SUFFICES ASSUME NEW x \in Side, NEW k \in Key PROVE AnnouncedKey(x, k)'
    BY DEF Announced
  <1>6. AnnouncedKey(x, k)
    BY DEF Announced
  <1>7. CASE x = s /\ k = j /\ j \in wired[s] /\ j \notin wired'[s]
    <2>1. ~Queued(wq[s], Register(j))
      BY <1>7 DEF OpenedOnce, EntersOnce
    <2>2. ~Queued(wq'[s], Register(j))
      BY <1>1, <1>3, <2>1, PopHarmless DEF NoEntry, NoneAdded
    <2> QED BY <1>7, <2>2 DEF AnnouncedKey, RxAlive
  <1>8. CASE ~(x = s /\ k = j /\ j \in wired[s] /\ j \notin wired'[s])
    <2>1. wbuf'[x][k] = wbuf[x][k] /\ wired'[x] \subseteq wired[x]
      BY <1>3, <1>4, <1>8
    <2>2. Head(wq[s]) # Message(k)
      BY <1>2, Kinds2
    <2>3. CountKeeps(x, k) /\ RxKeeps(x, k)
      BY <1>1, <2>1, <2>2, PopAnnounced
    <2> QED BY <1>1, <1>5, <1>6, <2>1, <2>3, AnnouncedStep
  <1> QED BY <1>7, <1>8

\* A stream that was not open on side s gets its channel, and nothing else happens to the
\* messages of the streams.
OpensOne(s) ==
  \E j \in Key :
    /\ ~Opened(s, j) /\ UNCHANGED <<wbuf, pend>>
    /\ \A x \in Side, k \in Key : /\ CountKeeps(x, k) /\ StateKeeps(x)
                                  /\ x # s \/ k # j => RxKeeps(x, k)

\* Nothing of it is announced yet, and nothing is in its channel.
LEMMA OpeningAnnounced ==
  ASSUME TypeOK, OrderedQueues, Announced, NEW s \in Side, OpensOne(s)
  PROVE  Announced'
  <1> PICK j \in Key :
        /\ ~Opened(s, j) /\ UNCHANGED <<wbuf, pend>>
        /\ \A x \in Side, k \in Key : /\ CountKeeps(x, k) /\ StateKeeps(x)
                                      /\ x # s \/ k # j => RxKeeps(x, k)
    BY DEF OpensOne
  <1> SUFFICES ASSUME NEW x \in Side, NEW k \in Key PROVE AnnouncedKey(x, k)'
    BY DEF Announced
  <1>1. CASE x # s \/ k # j
    BY <1>1, AnnouncedStep DEF Announced
  <1>2. CASE x = s /\ k = j
    <2>1. Untouched(s, k)
      BY <1>2 DEF OrderedQueues, OrderedKey
    <2>2. About(Message(k), k)
      BY DEF Message, About
    <2>3. ~Queued(wq[s], Message(k))
      BY <2>1, <2>2 DEF Untouched, Mentions, Queued
    <2>4. wq[s] \in Seq(WiredEvent)
      BY DEF TypeOK
    <2>5. CountOf(wq[s], Message(k)) = 0
      BY <2>3, <2>4, CountType
    <2>6. CountOf(wq'[s], Message(k)) = 0
      BY <2>5 DEF CountKeeps
    <2>7. Due(s, k)' = 0
      BY <2>1, <2>6 DEF Due, Untouched
    <2>8. Len(wbuf'[s][k]) = 0
      BY <2>1 DEF Untouched
    <2> QED BY <1>2, <2>7, <2>8 DEF AnnouncedKey
  <1> QED BY <1>1, <1>2

LEMMA ReadOpens ==
  ASSUME TypeOK, OpenedOnce, NEW s \in Side, ReadOpen(s)
  PROVE  OpensOne(s)
  <1>1. PICK id \in WireId :
          /\ PushW(s, Register(Remote(id))) /\ UNCHANGED <<pend, wbuf>>
          /\ Remote(id) \in Key /\ ~Opened(s, Remote(id))
    BY ReadsId
  <1>2. UNCHANGED <<wired, wstate>>
    BY DEF ReadOpen
  <1> PICK j \in Key : j = Remote(id)
    BY <1>1
  <1>3. Register(j) \in WiredEvent
    BY EventTypes
  <1>4. ASSUME NEW x \in Side, NEW k \in Key
        PROVE  CountKeeps(x, k) /\ StateKeeps(x) /\ (x # s \/ k # j => RxKeeps(x, k))
    <2>1. Register(j) # Message(k) /\ (k # j => Register(j) # Register(k))
      BY Kinds2
    <2>2. wired'[x] \subseteq wired[x] /\ StateKeeps(x)
      BY <1>2 DEF StateKeeps
    <2> QED BY <1>1, <1>3, <2>1, <2>2, PushAnnounced
  <1> QED BY <1>1, <1>4 DEF OpensOne

LEMMA ConnectOpens ==
  ASSUME TypeOK, TypeOK', OpenedOnce, NEW s \in Side, WiredConnect(s)
  PROVE  OpensOne(s)
  <1>1. nextId[s] + 1 \in WireId
    BY NextIdType DEF WiredConnect
  <1> PICK id \in WireId : id = nextId[s] + 1
    BY <1>1
  <1>2. Allots(s, id)
    BY DEF WiredConnect, Connected, Allots
  <1>3. /\ Local(id) \in Key /\ ~(id <= nextId[s])
    BY <1>2, Fresh
  <1> PICK j \in Key : j = Local(id)
    BY <1>3
  <1>4. ~Opened(s, j)
    BY <1>3 DEF Opened, Local
  <1>5. /\ UNCHANGED <<wbuf, pend, wstate>> /\ wired' = [wired EXCEPT ![s] = @ \cup {j}]
        /\ wq' = [wq EXCEPT ![s][1].chans = @ - 1] /\ WiredAt(s, "event")
    BY DEF WiredConnect, Connected
  <1>6. wq \in [Side -> Seq(WiredEvent)] /\ wired \in [Side -> SUBSET Key]
    BY DEF TypeOK
  <1>7. /\ wq[s] \in Seq(WiredEvent) /\ wq[s] # <<>> /\ Head(wq[s]) = wq[s][1]
        /\ wq[s][1].t = "event" /\ wq[s][1] \in WiredEvent
    BY <1>5, HeadW
  <1> DEFINE a == [wq[s][1] EXCEPT !.chans = @ - 1]
  <1>8. a.t = "event"
    <2>1. wq[s][1] \in [t : {"event"}, chans : 0..MaxChans]
      BY <1>7 DEF WiredEvent, None
    <2> QED BY <2>1
  <1>9. wq'[s] = [wq[s] EXCEPT ![1] = a]
    BY <1>5, <1>6, <1>7
  <1> HIDE DEF a
  <1>10. ASSUME NEW x \in Side, NEW k \in Key
         PROVE  CountKeeps(x, k) /\ StateKeeps(x) /\ (x # s \/ k # j => RxKeeps(x, k))
    <2>1. StateKeeps(x)
      BY <1>5 DEF StateKeeps
    <2>2. CASE x # s
      <3>1. wq'[x] = wq[x] /\ wired'[x] = wired[x]
        BY <1>5, <1>6, <2>2
      <3> QED BY <2>1, <3>1 DEF CountKeeps, RxKeeps, RxAlive
    <2>3. CASE x = s
      <3>1. a # Message(k) /\ Head(wq[s]) # Message(k) /\ a # Register(k)
        BY <1>7, <1>8, Kinds2
      <3>2. CountOf([wq[s] EXCEPT ![1] = a], Message(k)) = CountOf(wq[s], Message(k))
        BY <1>7, <3>1, CountHead
      <3>3. CountKeeps(x, k)
        BY <1>9, <2>3, <3>2 DEF CountKeeps
      <3>4. NoneAdded(wq[x], wq'[x], Register(k))
        <4>1. NoneAdded(wq[s], [wq[s] EXCEPT ![1] = a], Register(k))
          BY <1>7, <3>1, CountDownAdds
        <4> QED BY <1>9, <2>3, <4>1
      <3>5. k # j => (k \in wired'[x] => k \in wired[x])
        BY <1>5, <1>6, <2>3
      <3> QED BY <2>1, <2>3, <3>3, <3>4, <3>5 DEF RxKeeps, RxAlive, NoneAdded
    <2> QED BY <2>2, <2>3
  <1> QED BY <1>4, <1>5, <1>10 DEF OpensOne

LEMMA ConnectFailsOpens ==
  ASSUME TypeOK, TypeOK', OpenedOnce, NEW s \in Side, WiredConnectFails(s)
  PROVE  OpensOne(s)
  <1>1. nextId[s] + 1 \in WireId
    BY NextIdType DEF WiredConnectFails
  <1> PICK id \in WireId : id = nextId[s] + 1
    BY <1>1
  <1>2. Allots(s, id)
    BY DEF WiredConnectFails, Connected, Allots, netVars
  <1>3. /\ Local(id) \in Key /\ ~(id <= nextId[s])
    BY <1>2, Fresh
  <1> PICK j \in Key : j = Local(id)
    BY <1>3
  <1>4. ~Opened(s, j)
    BY <1>3 DEF Opened, Local
  <1> DEFINE popped == [wq EXCEPT ![s] = Tail(@)]
             d == Drop(j, TRUE)
             q1 == Tail(wq[s])
             q2 == Append(q1, d)
             q3 == Append(q2, d)
  <1>5. /\ UNCHANGED <<wbuf, pend>> /\ wired' = [wired EXCEPT ![s] = @ \cup {j}]
        /\ wstate' = [wstate EXCEPT ![s] = "closed"]
        /\ wq' = Pushed(Pushed(popped, wstate, s, d), wstate, s, d)
        /\ WiredAt(s, "event") /\ wq[s] # <<>>
    BY DEF WiredConnectFails, Connected, WiredAt
  <1>6. /\ wq \in [Side -> Seq(WiredEvent)] /\ wq[s] \in Seq(WiredEvent)
        /\ wired \in [Side -> SUBSET Key]
        /\ wstate \in [Side -> {"open", "closed", "done"}]
    BY DEF TypeOK
  <1>7. Head(wq[s]).t = "event"
    BY <1>5, HeadW
  <1>8. d \in WiredEvent
    BY EventTypes
  <1>9. q1 \in Seq(WiredEvent) /\ q2 \in Seq(WiredEvent)
    <2>1. q1 \in Seq(WiredEvent)
      BY <1>5, <1>6
    <2> HIDE DEF q1, d
    <2> QED BY <1>8, <2>1
  <1>10. wq'[s] \in {q1, q3}
    <2> HIDE DEF d
    <2>1. popped \in [Side -> Seq(WiredEvent)] /\ popped[s] = q1
      BY <1>5, <1>6, <1>9
    <2> HIDE DEF popped, q1
    <2> QED BY <1>5, <2>1 DEF Pushed
  <1>11. \A x \in Side : x # s => wq'[x] = wq[x]
    BY <1>5, <1>6 DEF Pushed
  <1> HIDE DEF popped
  <1>12. ASSUME NEW x \in Side, NEW k \in Key
         PROVE  CountKeeps(x, k) /\ StateKeeps(x) /\ (x # s \/ k # j => RxKeeps(x, k))
    <2>1. StateKeeps(x)
      BY <1>5, <1>6 DEF StateKeeps
    <2>2. CASE x # s
      <3>1. wq'[x] = wq[x] /\ wired'[x] = wired[x]
        BY <1>5, <1>6, <1>11, <2>2
      <3> QED BY <2>1, <3>1 DEF CountKeeps, RxKeeps, RxAlive
    <2>3. CASE x = s
      <3>1. d # Message(k) /\ Head(wq[s]) # Message(k) /\ d # Register(k)
        <4>1. d # Message(k) /\ d # Register(k)
          BY DropMessage
        <4> HIDE DEF d
        <4> QED BY <1>7, <4>1, Kinds2
      <3> HIDE DEF d
      <3>2. CountOf(q1, Message(k)) \in Nat
        <4> HIDE DEF q1
        <4> QED BY <1>9, CountType
      <3>3. CountOf(wq[s], Message(k)) = CountOf(q1, Message(k))
        <4>1. CountOf(wq[s], Message(k))
                = CountOf(q1, Message(k)) + (IF Head(wq[s]) = Message(k) THEN 1 ELSE 0)
          BY <1>5, <1>6, CountTail
        <4> HIDE DEF q1
        <4> QED BY <3>1, <3>2, <4>1
      <3>4. CountOf(q2, Message(k)) = CountOf(q1, Message(k))
        <4> HIDE DEF q1
        <4>1. CountOf(q2, Message(k))
                = CountOf(q1, Message(k)) + (IF d = Message(k) THEN 1 ELSE 0)
          BY <1>8, <1>9, CountAppend
        <4> HIDE DEF q2
        <4> QED BY <3>1, <3>2, <4>1
      <3>5. CountOf(q3, Message(k)) = CountOf(q2, Message(k))
        <4> HIDE DEF q2
        <4>1. CountOf(q3, Message(k))
                = CountOf(q2, Message(k)) + (IF d = Message(k) THEN 1 ELSE 0)
          BY <1>8, <1>9, CountAppend
        <4>2. CountOf(q2, Message(k)) \in Nat
          BY <3>2, <3>4
        <4> HIDE DEF q3
        <4> QED BY <3>1, <4>1, <4>2
      <3>6. /\ NoneAdded(wq[s], q1, Register(k)) /\ NoneAdded(q1, q2, Register(k))
            /\ NoneAdded(q2, q3, Register(k))
        <4>1. NoneAdded(wq[s], q1, Register(k))
          BY <1>5, <1>6, TailAdds
        <4> HIDE DEF q1
        <4>2. NoneAdded(q1, q2, Register(k))
          BY <1>8, <1>9, <3>1, AppendAdds
        <4> HIDE DEF q2
        <4> QED BY <1>8, <1>9, <3>1, <4>1, <4>2, AppendAdds
      <3> HIDE DEF q1, q2, q3
      <3>7. CountKeeps(x, k)
        BY <1>10, <2>3, <3>3, <3>4, <3>5 DEF CountKeeps
      <3>8. Queued(wq'[x], Register(k)) => Queued(wq[x], Register(k))
        BY <1>10, <2>3, <3>6 DEF NoneAdded
      <3>9. k # j => (k \in wired'[x] => k \in wired[x])
        BY <1>5, <1>6, <2>3
      <3> QED BY <2>1, <2>3, <3>7, <3>8, <3>9 DEF RxKeeps, RxAlive
    <2> QED BY <2>2, <2>3
  <1> QED BY <1>4, <1>5, <1>12 DEF OpensOne

LEMMA AnnouncedReader ==
  ASSUME TypeOK, OpenedOnce, OrderedQueues, Announced, NEW s \in Side, ReaderStep(s)
  PROVE  Announced'
  <1> USE DEF wiredVars, helperVars, netVars, halfVars
  <1>1. CASE ReadOpen(s)
    BY <1>1, ReadOpens, OpeningAnnounced
  <1>2. CASE ReadEvent(s) \/ ReadMessage(s) \/ ReadDrop(s) \/ ReadEnd(s)
    <2>1. UNCHANGED <<wq, wired, wbuf, pend, wstate>>
      BY <1>2 DEF ReadEvent, ReadMessage, ReadDrop, ReadEnd
    <2> QED BY <2>1, IdleAnnounced DEF StateKeeps
  <1>3. CASE ReadJoin(s)
    <2>1. PushW(s, None) /\ UNCHANGED <<wired, wbuf, pend, wstate>>
      BY <1>3 DEF ReadJoin
    <2>2. None \in WiredEvent /\ \A k \in Key : None # Message(k) /\ None # Register(k)
      BY EventTypes, Kinds2
    <2> QED BY <2>1, <2>2, QueuesAnnounced
  <1> QED BY <1>1, <1>2, <1>3 DEF ReaderStep

LEMMA AnnouncedHelper ==
  ASSUME TypeOK, Announced, NEW s \in Side, HelperStep(s)
  PROVE  Announced'
  <1> USE DEF wiredVars, netVars, halfVars
  <1>1. CASE HelperMessage(s) \/ HelperRegister(s) \/ HelperNone(s) \/ HelperEnd(s)
    <2>1. UNCHANGED <<wq, wired, wbuf, pend, wstate>>
      BY <1>1 DEF HelperMessage, HelperRegister, HelperNone, HelperEnd
    <2> QED BY <2>1, IdleAnnounced DEF StateKeeps
  <1>2. CASE HelperDrop(s)
    <2>1. HelperAt(s, "drop") /\ UNCHANGED <<wired, wbuf, pend, wstate>>
      BY <1>2 DEF HelperDrop
    <2>2. Head(uq[s]).k \in Key
      BY <2>1, HeadU
    <2> PICK j \in Key : j = Head(uq[s]).k
      BY <2>2
    <2>3. wq' = wq \/ PushW(s, Drop(j, FALSE))
      BY <1>2 DEF HelperDrop
    <2>4. CASE wq' = wq
      BY <2>1, <2>4, IdleAnnounced DEF StateKeeps
    <2>5. CASE PushW(s, Drop(j, FALSE))
      <3>1. Drop(j, FALSE) \in WiredEvent
        BY EventTypes
      <3>2. \A k \in Key : Drop(j, FALSE) # Message(k) /\ Drop(j, FALSE) # Register(k)
        BY DropMessage
      <3> QED BY <2>1, <2>5, <3>1, <3>2, QueuesAnnounced
    <2> QED BY <2>3, <2>4, <2>5
  <1> QED BY <1>1, <1>2 DEF HelperStep

\* The two sends of poll_flush: between them the message is due, as pend says.
LEMMA AnnouncedFlush ==
  ASSUME TypeOK, Announced, NEW s \in Side, NEW j \in Key, FlushBegin(s, j) \/ FlushEnd(s, j)
  PROVE  Announced'
  <1> SUFFICES ASSUME NEW x \in Side, NEW k \in Key PROVE AnnouncedKey(x, k)'
    BY DEF Announced
  <1>1. AnnouncedKey(x, k)
    BY DEF Announced
  <1>2. UNCHANGED <<wired, wstate>>
    BY DEF FlushBegin, FlushEnd
  <1>3. StateKeeps(x) /\ wired'[x] \subseteq wired[x]
    BY <1>2 DEF StateKeeps
  <1>4. /\ wbuf \in [Side -> [Key -> Seq(Nat \ {0})]] /\ pend \in [Side -> [Key -> BOOLEAN]]
        /\ flushed \in [Side -> [Key -> Nat]] /\ wq[x] \in Seq(WiredEvent)
    BY DEF TypeOK
  <1>5. CASE FlushBegin(s, j)
    <2>1. /\ wq' = wq /\ ~pend[s][j] /\ flushed' = [flushed EXCEPT ![s][j] = @ + 1]
          /\ pend' = [pend EXCEPT ![s][j] = TRUE]
          /\ wbuf' = [wbuf EXCEPT ![s][j] = Append(@, flushed'[s][j])]
      BY <1>5 DEF FlushBegin, FlushSend, SendData
    <2>2. CountKeeps(x, k) /\ RxKeeps(x, k)
      <3>1. NoneAdded(wq[x], wq'[x], Register(k))
        BY <2>1, SameAdds
      <3> QED BY <1>3, <2>1, <3>1, RxStill DEF CountKeeps
    <2>3. CASE ~(x = s /\ k = j)
      <3>1. pend'[x][k] = pend[x][k] /\ wbuf'[x][k] = wbuf[x][k]
        BY <1>4, <2>1, <2>3
      <3> QED BY <1>1, <1>3, <2>2, <3>1, AnnouncedStep
    <2>4. CASE x = s /\ k = j
      <3> SUFFICES ASSUME RxAlive(s, k)'
                   PROVE  /\ Due(s, k)' <= Len(wbuf'[s][k])
                          /\ wstate'[s] = "open" => Due(s, k)' = Len(wbuf'[s][k])
        BY <2>4 DEF AnnouncedKey
      <3>1. /\ Due(s, k) <= Len(wbuf[s][k])
            /\ wstate[s] = "open" => Due(s, k) = Len(wbuf[s][k])
        BY <1>1, <2>2, <2>4 DEF AnnouncedKey, RxKeeps
      <3>2. /\ wbuf[s][k] \in Seq(Nat \ {0}) /\ flushed'[s][k] \in Nat \ {0}
            /\ wbuf'[s][k] = Append(wbuf[s][k], flushed'[s][k])
            /\ pend'[s][k] = TRUE /\ pend[s][k] = FALSE
        BY <1>4, <2>1, <2>4
      <3>3. Len(wbuf'[s][k]) = Len(wbuf[s][k]) + 1 /\ Len(wbuf[s][k]) \in Nat
        BY <3>2
      <3>4. CountOf(wq[s], Message(k)) \in Nat
        BY <1>4, <2>4, CountType
      <3>5. Due(s, k)' = Due(s, k) + 1 /\ Due(s, k) \in Nat
        <4>1. CountOf(wq'[s], Message(k)) = CountOf(wq[s], Message(k))
          BY <2>1
        <4>2. Due(s, k)' = CountOf(wq[s], Message(k)) + 1
          BY <3>2, <4>1 DEF Due
        <4>3. Due(s, k) = CountOf(wq[s], Message(k))
          BY <3>2, <3>4 DEF Due
        <4> QED BY <3>4, <4>2, <4>3
      <3> DEFINE a == Due(s, k)
                 b == Due(s, k)'
                 m == Len(wbuf[s][k])
                 n == Len(wbuf'[s][k])
      <3>6. a \in Nat /\ b = a + 1 /\ m \in Nat /\ n = m + 1
        BY <3>3, <3>5
      <3>7. a <= m /\ (wstate'[s] = "open" => a = m)
        BY <1>2, <3>1
      <3> HIDE DEF a, b, m, n
      <3>8. b <= n /\ (wstate'[s] = "open" => b = n)
        BY <3>6, <3>7
      <3> QED BY <3>8 DEF b, n
    <2> QED BY <2>3, <2>4
  <1>6. CASE FlushEnd(s, j)
    <2>1. /\ PushW(s, Message(j)) /\ pend[s][j] /\ wbuf' = wbuf
          /\ pend' = [pend EXCEPT ![s][j] = FALSE]
      BY <1>6 DEF FlushEnd, FlushSend, SendEvent
    <2>2. Message(j) \in WiredEvent /\ Message(j) # Register(k)
      BY EventTypes, Kinds2
    <2>3. RxKeeps(x, k)
      BY <1>3, <2>1, <2>2, PushAnnounced
    <2>4. CASE ~(x = s /\ k = j)
      <3>1. pend'[x][k] = pend[x][k] /\ wbuf'[x][k] = wbuf[x][k]
        BY <1>4, <2>1, <2>4
      <3>2. Message(j) = Message(k) => j = k
        BY NotAbout
      <3>3. CountKeeps(x, k)
        BY <1>3, <2>1, <2>2, <2>4, <3>2, PushAnnounced
      <3> QED BY <1>1, <1>3, <2>3, <3>1, <3>3, AnnouncedStep
    <2>5. CASE x = s /\ k = j
      <3> DEFINE c == CountOf(wq[s], Message(k))
                 c2 == CountOf(wq'[s], Message(k))
                 n == Len(wbuf[s][k])
      <3>1. c \in Nat /\ n \in Nat
        <4>1. wq[s] \in Seq(WiredEvent)
          BY <1>4, <2>5
        <4>2. c \in Nat
          BY <4>1, CountType
        <4>3. wbuf[s][k] \in Seq(Nat \ {0})
          BY <1>4, <2>5
        <4>4. n \in Nat
          BY <4>3
        <4> HIDE DEF c, n
        <4> QED BY <4>2, <4>4
      <3>2. /\ wstate[s] = "open" => c2 = c + 1
            /\ wstate[s] # "open" => c2 = c
        <4>1. Message(k) \in WiredEvent /\ PushW(s, Message(k)) /\ wired'[s] \subseteq wired[s]
          BY <1>3, <2>1, <2>2, <2>5
        <4> QED BY <4>1, PushAnnounced DEF CountKeeps
      <3>3. Due(s, k) = c + 1
        BY <2>1, <2>5 DEF Due
      <3>4. Due(s, k)' = c2 + 0
        <4>1. pend'[s][k] = FALSE
          BY <1>4, <2>1, <2>5
        <4> QED BY <4>1 DEF Due
      <3>5. ASSUME RxAlive(s, k)' PROVE c + 1 <= n /\ (wstate[s] = "open" => c + 1 = n)
        BY <1>1, <2>3, <2>5, <3>3, <3>5 DEF AnnouncedKey, RxKeeps
      <3>6. Len(wbuf'[s][k]) = n /\ wstate'[s] = wstate[s]
        BY <1>2, <2>1
      <3> HIDE DEF c, c2, n
      <3>7. ASSUME RxAlive(s, k)' PROVE c2 + 0 <= n /\ (wstate[s] = "open" => c2 + 0 = n)
        BY <3>1, <3>2, <3>5, <3>7
      <3> QED BY <2>5, <3>4, <3>6, <3>7 DEF AnnouncedKey
    <2> QED BY <2>4, <2>5
  <1> QED BY <1>5, <1>6

LEMMA AnnouncedApp ==
  ASSUME TypeOK, Announced, NEW s \in Side, AppStep(s)
  PROVE  Announced'
  <1> USE DEF wiredVars, helperVars, netVars, halfVars
  <1>1. ASSUME NEW n \in 0..MaxChans, Send(s, n) PROVE Announced'
    <2>1. PushW(s, Event(n)) /\ UNCHANGED <<wired, wbuf, pend, wstate>>
      BY <1>1 DEF Send
    <2>2. Event(n) \in WiredEvent /\ \A k \in Key : Event(n) # Message(k) /\ Event(n) # Register(k)
      BY EventTypes, Kinds2
    <2> QED BY <2>1, <2>2, QueuesAnnounced
  <1>2. CASE SendNone(s) \/ Shutdown(s)
    <2>1. PushW(s, None) /\ UNCHANGED <<wired, wbuf, pend, wstate>>
      BY <1>2 DEF SendNone, Shutdown
    <2>2. None \in WiredEvent /\ \A k \in Key : None # Message(k) /\ None # Register(k)
      BY EventTypes, Kinds2
    <2> QED BY <2>1, <2>2, QueuesAnnounced
  <1>3. CASE Abort(s)
    <2> SUFFICES ASSUME NEW x \in Side, NEW k \in Key PROVE AnnouncedKey(x, k)'
      BY DEF Announced
    <2>1. /\ wq' = [wq EXCEPT ![s] = <<>>] /\ wired' = [wired EXCEPT ![s] = {}]
          /\ wbuf' = [wbuf EXCEPT ![s] = [i \in Key |-> <<>>]]
          /\ wstate' = [wstate EXCEPT ![s] = "done"] /\ pend' = pend
      BY <1>3 DEF Abort
    <2>2. /\ wq \in [Side -> Seq(WiredEvent)] /\ wired \in [Side -> SUBSET Key]
          /\ wbuf \in [Side -> [Key -> Seq(Nat \ {0})]]
          /\ wstate \in [Side -> {"open", "closed", "done"}]
      BY DEF TypeOK
    <2>3. CASE x = s
      <3>1. wq'[x] = <<>> /\ wired'[x] = {}
        BY <2>1, <2>2, <2>3
      <3>2. ~RxAlive(x, k)'
        BY <3>1 DEF RxAlive, Queued
      <3> QED BY <3>2 DEF AnnouncedKey
    <2>4. CASE x # s
      <3>1. /\ wq'[x] = wq[x] /\ wired'[x] = wired[x] /\ wbuf'[x][k] = wbuf[x][k]
            /\ pend'[x][k] = pend[x][k] /\ wstate'[x] = wstate[x]
        BY <2>1, <2>2, <2>4
      <3>2. CountKeeps(x, k) /\ StateKeeps(x) /\ RxKeeps(x, k)
        BY <3>1 DEF CountKeeps, StateKeeps, RxKeeps, RxAlive
      <3> QED BY <3>1, <3>2, AnnouncedStep DEF Announced
    <2> QED BY <2>3, <2>4
  <1>4. CASE AbandonShutdown(s)
    <2>1. UNCHANGED <<wq, wired, wbuf, pend, wstate>>
      BY <1>4 DEF AbandonShutdown
    <2> QED BY <2>1, IdleAnnounced DEF StateKeeps
  <1>5. ASSUME NEW j \in Key, HalfStep(s, j) PROVE Announced'
    <2>1. CASE FlushBegin(s, j) \/ FlushEnd(s, j)
      BY <2>1, AnnouncedFlush
    <2>2. CASE ShutWrite(s, j) \/ DropWrite(s, j) \/ DropRead(s, j)
      <3>1. PushW(s, Drop(j, TRUE)) /\ UNCHANGED <<wired, wbuf, pend, wstate>>
        BY <2>2 DEF ShutWrite, DropWrite, DropRead
      <3>2. Drop(j, TRUE) \in WiredEvent
        BY EventTypes
      <3>3. \A k \in Key : Drop(j, TRUE) # Message(k) /\ Drop(j, TRUE) # Register(k)
        BY DropMessage
      <3> QED BY <3>1, <3>2, <3>3, QueuesAnnounced
    <2>3. CASE PollRead(s, j) \/ PollReadEof(s, j)
      <3>1. UNCHANGED <<wq, wired, wbuf, pend, wstate>>
        BY <2>3 DEF PollRead, PollReadEof
      <3> QED BY <3>1, IdleAnnounced DEF StateKeeps
    <2> QED BY <1>5, <2>1, <2>2, <2>3 DEF HalfStep
  <1> QED BY <1>1, <1>2, <1>3, <1>4, <1>5 DEF AppStep

LEMMA AnnouncedInit == ASSUME Init PROVE Announced
  <1> SUFFICES ASSUME NEW s \in Side, NEW k \in Key PROVE AnnouncedKey(s, k)
    BY DEF Announced
  <1>1. wq[s] = <<>> /\ wired[s] = {}
    BY DEF Init
  <1>2. ~RxAlive(s, k)
    BY <1>1 DEF RxAlive, Queued
  <1> QED BY <1>2 DEF AnnouncedKey

LEMMA AnnouncedNext ==
  ASSUME TypeOK, TypeOK', OpenedOnce, OrderedQueues, Announced, [Next]_vars
  PROVE  Announced'
  <1> USE DEF wiredVars, helperVars, netVars, halfVars
  <1>1. CASE UNCHANGED vars
    <2>1. UNCHANGED <<wq, wired, wbuf, pend, wstate>>
      BY <1>1 DEF vars
    <2> QED BY <2>1, IdleAnnounced DEF StateKeeps
  <1>2. ASSUME NEW s \in Side, WiredStep(s) PROVE Announced'
    <2>1. CASE WiredConnect(s) \/ WiredConnectFails(s)
      BY <2>1, ConnectOpens, ConnectFailsOpens, OpeningAnnounced
    <2> QED BY <1>2, <2>1, AnnouncedWired, AnnouncedMessage, AnnouncedDrop DEF WiredStep
  <1>3. CASE Break
    <2>1. UNCHANGED <<wq, wired, wbuf, pend, wstate>>
      BY <1>3 DEF Break
    <2> QED BY <2>1, IdleAnnounced DEF StateKeeps
  <1> QED BY <1>1, <1>2, <1>3, AnnouncedReader, AnnouncedHelper, AnnouncedApp DEF Next

\* A live stream's channel holds a message for each event queued for it, and for the flush
\* between its two sends; with the W queue open, no more than those.
THEOREM MessagesAnnounced == Spec => []Announced
  <1>1. Init => Announced
    BY AnnouncedInit
  <1>2. /\ TypeOK /\ TypeOK' /\ OpenedOnce /\ OrderedQueues /\ Announced
        /\ [Next]_vars
        => Announced'
    BY AnnouncedNext
  <1> QED BY <1>1, <1>2, TypeCorrect, StreamsOpenedOnce, QueuesOrdered, PTL DEF Spec

\* try_recv of the wired task finds the data each message event announces, for any number
\* of streams and messages: poll_flush sends the data before the event, and nothing takes
\* data without its event.
THEOREM TryRecvFinds == Spec => []TryRecvNeverMisses
  <1>1. TypeOK /\ Announced => TryRecvNeverMisses
    <2> SUFFICES ASSUME TypeOK, Announced, NEW s \in Side, WiredAt(s, "message"),
                        Head(wq[s]).k \in wired[s]
                 PROVE  wbuf[s][Head(wq[s]).k] # <<>>
      BY DEF TryRecvNeverMisses
    <2>1. /\ Head(wq[s]).k \in Key /\ wq[s] \in Seq(WiredEvent) /\ wq[s] # <<>>
          /\ Head(wq[s]) \in WiredEvent /\ Head(wq[s]).t = "message"
      BY HeadW DEF WiredAt
    <2> PICK k \in Key : k = Head(wq[s]).k
      BY <2>1
    <2>2. Head(wq[s]) = Message(k)
      BY <2>1 DEF WiredEvent, None, Message
    <2>3. Queued(wq[s], Message(k))
      BY <2>1, <2>2, TailAdds
    <2>4. CountOf(wq[s], Message(k)) \in Nat /\ CountOf(wq[s], Message(k)) # 0
      BY <2>1, <2>3, CountType
    <2>5. Due(s, k) \in Nat /\ Due(s, k) # 0
      BY <2>4 DEF Due
    <2>6. Due(s, k) <= Len(wbuf[s][k])
      BY DEF Announced, AnnouncedKey, RxAlive
    <2>7. Len(<<>>) = 0
      OBVIOUS
    <2> QED BY <2>5, <2>6, <2>7
  <1> QED BY <1>1, TypeCorrect, MessagesAnnounced, PTL

=============================================================================
