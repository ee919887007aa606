--------------------------- MODULE ChannelsProofs ---------------------------
(***************************************************************************)
(* Proofs about Channels, for every set of kinds, every capacity and every *)
(* number of values: its types, the order of the values, that the end loses *)
(* none, and that Channels implements ChannelPromise.                      *)
(***************************************************************************)
EXTENDS Channels, SequenceTheorems, TLAPS

Rising(s) == \A i, j \in 1..Len(s) : i < j => s[i] < s[j]
Below(s, t) == \A i \in 1..Len(s), j \in 1..Len(t) : s[i] < t[j]
UpTo(s, n) == \A i \in 1..Len(s) : s[i] <= n
LastOf(s, else) == IF s = <<>> THEN else ELSE s[Len(s)]

\* The inductive invariant, part by part.

\* The four places a value passes hold rising values, later places the smaller ones.
Ordered ==
  /\ Rising(got) /\ Rising(dst) /\ Rising(fwd) /\ Rising(src)
  /\ Below(got, dst) /\ Below(got, fwd) /\ Below(got, src)
  /\ Below(dst, fwd) /\ Below(dst, src) /\ Below(fwd, src)
  /\ UpTo(got, sent) /\ UpTo(dst, sent) /\ UpTo(fwd, sent) /\ UpTo(src, sent)

\* What the state of the tasks says about each other.
Tasks ==
  /\ wtask = "done" => src = <<>>
  /\ kind \in OneShot => sent <= 1 /\ (fwd # <<>> => wtask = "done")
  /\ lagged => kind = "broadcast_receiver"
  /\ back => kind = "wire_channel"
  /\ rdet = "done" /\ rtask = "run" => ~dstRx
  /\ dstRx /\ ~broken /\ rtask = "done" => wtask = "done" /\ fwd = <<>>
  /\ ended => rtask = "done" /\ dst = <<>>

\* Unless it may skip, a channel skips nothing on its way to a receiver that is there.
Gapless ==
  kind \notin Lossy =>
    /\ \A i \in 1..Len(got) : got[i] = i
    /\ dstRx => \A i \in 1..Len(dst) : dst[i] = Len(got) + i
    /\ dstRx /\ rtask = "run" => \A i \in 1..Len(fwd) : fwd[i] = Len(got) + Len(dst) + i
    /\ \A i \in 1..Len(src) : src[i] = (sent - Len(src)) + i

\* All that was sent is still under way or received.
Flowing == dstRx /\ ~broken /\ (wtask = "run" \/ ~(back \/ lagged))
Newest == LastOf(src, LastOf(fwd, LastOf(dst, LastOf(got, 0))))
Total == Len(got) + Len(dst) + Len(fwd) + Len(src)
Complete == Flowing => Newest = sent /\ (kind \notin Lossy => Total = sent)

\* What was so when the receiver saw the end stays so.
AtEnd ==
  ended /\ ~broken /\ ~lagged /\ ~back =>
    wtask = "done" /\ LastOf(got, 0) = sent /\ (kind \notin Lossy => Len(got) = sent)

ChannelInv == TypeOK /\ Ordered /\ Tasks /\ Gapless /\ Complete /\ AtEnd

-----------------------------------------------------------------------------
(* Lemmas on sequences.                                                     *)

LEMMA HeadAndTail ==
  ASSUME NEW S, NEW s \in Seq(S), s # <<>>
  PROVE  /\ Len(s) \in Nat \ {0} /\ Head(s) = s[1] /\ Head(s) \in S
         /\ Tail(s) \in Seq(S) /\ Len(Tail(s)) = Len(s) - 1
         /\ \A i \in 1..Len(Tail(s)) : Tail(s)[i] = s[i + 1]
  BY HeadTailProperties, EmptySeq

\* The values of a sequence that loses its head, and of one that gets a value more.
LEMMA TailOrder ==
  ASSUME NEW s \in Seq(Nat), s # <<>>
  PROVE  /\ Rising(s) => Rising(Tail(s))
         /\ \A t \in Seq(Nat) : Below(s, t) => Below(Tail(s), t)
         /\ \A t \in Seq(Nat) : Below(t, s) => Below(t, Tail(s))
         /\ \A n \in Nat : UpTo(s, n) => UpTo(Tail(s), n)
  <1>1. /\ Len(s) \in Nat \ {0} /\ Len(Tail(s)) = Len(s) - 1
        /\ \A i \in 1..Len(Tail(s)) : i + 1 \in 1..Len(s) /\ Tail(s)[i] = s[i + 1]
    BY HeadAndTail
  <1> QED BY <1>1 DEF Rising, Below, UpTo

LEMMA AppendOrder ==
  ASSUME NEW s \in Seq(Nat), NEW v \in Nat
  PROVE  /\ Rising(s) /\ (\A i \in 1..Len(s) : s[i] < v) => Rising(Append(s, v))
         /\ \A t \in Seq(Nat) :
              Below(s, t) /\ (\A i \in 1..Len(t) : v < t[i]) => Below(Append(s, v), t)
         /\ \A t \in Seq(Nat) :
              Below(t, s) /\ (\A i \in 1..Len(t) : t[i] < v) => Below(t, Append(s, v))
         /\ \A n \in Nat : UpTo(s, n) /\ v <= n => UpTo(Append(s, v), n)
  <1>1. /\ Len(s) \in Nat /\ Len(Append(s, v)) = Len(s) + 1
        /\ \A i \in 1..Len(Append(s, v)) :
             \/ i \in 1..Len(s) /\ Append(s, v)[i] = s[i]
             \/ i = Len(s) + 1 /\ Append(s, v)[i] = v
    BY AppendProperties, LenProperties
  <1>2. \A i \in 1..Len(s) : s[i] \in Nat
    BY ElementOfSeq
  <1> QED BY <1>1, <1>2 DEF Rising, Below, UpTo

\* The values before the head and after it.
LEMMA HeadOrder ==
  ASSUME NEW s \in Seq(Nat), s # <<>>
  PROVE  /\ Rising(s) => \A i \in 1..Len(Tail(s)) : Head(s) < Tail(s)[i]
         /\ \A t \in Seq(Nat) : Below(s, t) => \A i \in 1..Len(t) : Head(s) < t[i]
         /\ \A t \in Seq(Nat) : Below(t, s) => \A i \in 1..Len(t) : t[i] < Head(s)
         /\ \A n \in Nat : UpTo(s, n) => Head(s) <= n
  <1>1. /\ Len(s) \in Nat \ {0} /\ Head(s) = s[1] /\ Len(Tail(s)) = Len(s) - 1
        /\ \A i \in 1..Len(Tail(s)) : i + 1 \in 1..Len(s) /\ 1 < i + 1 /\ Tail(s)[i] = s[i + 1]
    BY HeadAndTail
  <1>2. 1 \in 1..Len(s)
    BY <1>1
  <1> QED BY <1>1, <1>2 DEF Rising, Below, UpTo

LEMMA EmptyOrder ==
  /\ Rising(<<>>)
  /\ \A t \in Seq(Nat) : Below(<<>>, t) /\ Below(t, <<>>)
  /\ \A n : UpTo(<<>>, n)
  BY DEF Rising, Below, UpTo

LEMMA SingleOrder ==
  ASSUME NEW v \in Nat
  PROVE  /\ <<v>> \in Seq(Nat) /\ Len(<<v>>) = 1 /\ <<v>>[1] = v
         /\ Rising(<<v>>)
         /\ \A t \in Seq(Nat) : (\A i \in 1..Len(t) : v < t[i]) => Below(<<v>>, t)
         /\ \A t \in Seq(Nat) : (\A i \in 1..Len(t) : t[i] < v) => Below(t, <<v>>)
         /\ \A n \in Nat : v <= n => UpTo(<<v>>, n)
  <1>1. <<v>> \in Seq(Nat) /\ Len(<<v>>) = 1 /\ <<v>>[1] = v
    OBVIOUS
  <1> QED BY <1>1 DEF Rising, Below, UpTo

\* A beginning of a sequence.
LEMMA PrefixOrder ==
  ASSUME NEW s \in Seq(Nat), NEW n \in 0..Len(s)
  PROVE  /\ Rising(s) => Rising(SubSeq(s, 1, n))
         /\ \A t \in Seq(Nat) : Below(s, t) => Below(SubSeq(s, 1, n), t)
         /\ \A t \in Seq(Nat) : Below(t, s) => Below(t, SubSeq(s, 1, n))
         /\ \A m \in Nat : UpTo(s, m) => UpTo(SubSeq(s, 1, n), m)
         /\ Len(SubSeq(s, 1, n)) = n
         /\ \A i \in 1..n : SubSeq(s, 1, n)[i] = s[i]
  <1>1. Len(s) \in Nat /\ n \in Nat /\ \A i \in 1..n : i \in 1..Len(s) /\ s[i] \in Nat
    BY LenProperties, ElementOfSeq
  <1>2. Len(SubSeq(s, 1, n)) = n /\ \A i \in 1..n : SubSeq(s, 1, n)[i] = s[i]
    <2>1. 1 \in Int /\ n \in Int /\ \A i \in 1..n : s[i] \in Nat
      BY <1>1
    <2>2. /\ Len(SubSeq(s, 1, n)) = IF 1 <= n THEN n - 1 + 1 ELSE 0
          /\ \A i \in 1..n - 1 + 1 : SubSeq(s, 1, n)[i] = s[1 + i - 1]
      BY <2>1, SubSeqProperties
    <2> QED BY <1>1, <2>2
  <1> QED BY <1>1, <1>2 DEF Rising, Below, UpTo

LEMMA LastAdded ==
  ASSUME NEW s \in Seq(Nat), NEW v \in Nat, NEW e \in Nat
  PROVE  LastOf(<<>>, e) = e /\ LastOf(<<v>>, e) = v /\ LastOf(Append(s, v), e) = v
  <1>1. Append(s, v) # <<>> /\ Len(Append(s, v)) = Len(s) + 1 /\ Append(s, v)[Len(s) + 1] = v
    BY AppendProperties
  <1> QED BY <1>1 DEF LastOf

LEMMA LastType ==
  ASSUME NEW s \in Seq(Nat), NEW e \in Nat
  PROVE  LastOf(s, e) \in Nat
  <1>1. s # <<>> => Len(s) \in 1..Len(s)
    BY EmptySeq
  <1> QED BY <1>1, ElementOfSeq DEF LastOf

\* How the newest value moves.
LEMMA LastMoves ==
  ASSUME NEW s \in Seq(Nat), NEW t \in Seq(Nat), NEW e \in Nat
  PROVE  s # <<>> =>
           LastOf(Tail(s), LastOf(Append(t, Head(s)), e)) = LastOf(s, LastOf(t, e))
  <1>1. ASSUME s # <<>>, NEW d
        PROVE LastOf(Tail(s), Head(s)) = LastOf(s, d)
    <2>1. /\ Len(s) \in Nat \ {0} /\ Head(s) = s[1] /\ Tail(s) \in Seq(Nat) /\ Len(Tail(s)) = Len(s) - 1
          /\ \A i \in 1..Len(Tail(s)) : Tail(s)[i] = s[i + 1]
      BY <1>1, HeadAndTail
    <2>2. CASE Tail(s) = <<>>
      <3>0. Len(Tail(s)) = 0
        BY <2>2, EmptySeq
      <3>1. Len(s) \in Nat /\ Len(Tail(s)) = Len(s) - 1
        BY <2>1
      <3>2. Len(s) = 1
        BY <3>0, <3>1
      <3> QED BY <1>1, <2>1, <2>2, <3>2 DEF LastOf
    <2>3. CASE Tail(s) # <<>>
      <3>1. Len(Tail(s)) \in 1..Len(Tail(s))
        BY <2>1, <2>3, EmptySeq
      <3>2. Tail(s)[Len(Tail(s))] = s[Len(s)]
        BY <2>1, <3>1
      <3> QED BY <1>1, <2>3, <3>2 DEF LastOf
    <2> QED BY <2>2, <2>3
  <1>2. ASSUME s # <<>>
        PROVE LastOf(Append(t, Head(s)), e) = Head(s)
    <2>1. Head(s) \in Nat
      BY <1>2, HeadAndTail
    <2> QED BY <2>1, LastAdded
  <1> QED BY <1>1, <1>2

\* The head of s goes to the end of t, which has the smaller values.
LEMMA MoveOrder ==
  ASSUME NEW s \in Seq(Nat), NEW t \in Seq(Nat), s # <<>>, Rising(s), Rising(t), Below(t, s)
  PROVE  /\ Tail(s) \in Seq(Nat) /\ Append(t, Head(s)) \in Seq(Nat)
         /\ Rising(Tail(s)) /\ Rising(Append(t, Head(s))) /\ Below(Append(t, Head(s)), Tail(s))
         /\ \A u \in Seq(Nat) : Below(u, s) /\ Below(u, t) =>
                                Below(u, Tail(s)) /\ Below(u, Append(t, Head(s)))
         /\ \A u \in Seq(Nat) : Below(s, u) /\ Below(t, u) =>
                                Below(Tail(s), u) /\ Below(Append(t, Head(s)), u)
         /\ \A n \in Nat : UpTo(s, n) /\ UpTo(t, n) =>
                           UpTo(Tail(s), n) /\ UpTo(Append(t, Head(s)), n)
  <1> DEFINE h == Head(s)
  <1>1. h \in Nat /\ Tail(s) \in Seq(Nat)
    BY HeadAndTail
  <1>2. /\ \A i \in 1..Len(Tail(s)) : h < Tail(s)[i]
        /\ \A i \in 1..Len(t) : t[i] < h
        /\ \A u \in Seq(Nat) : Below(s, u) => \A i \in 1..Len(u) : h < u[i]
        /\ \A u \in Seq(Nat) : Below(u, s) => \A i \in 1..Len(u) : u[i] < h
        /\ \A n \in Nat : UpTo(s, n) => h <= n
    BY HeadOrder
  <1> HIDE DEF h
  <1>3. Append(t, h) \in Seq(Nat) /\ Rising(Append(t, h)) /\ Rising(Tail(s))
    BY <1>1, <1>2, AppendOrder, AppendProperties, TailOrder
  <1>4. Below(Append(t, h), Tail(s))
    <2>1. Below(t, Tail(s))
      BY TailOrder
    <2> QED BY <1>1, <1>2, <2>1, AppendOrder
  <1>5. ASSUME NEW u \in Seq(Nat), Below(u, s), Below(u, t)
        PROVE Below(u, Tail(s)) /\ Below(u, Append(t, h))
    BY <1>1, <1>2, <1>5, AppendOrder, TailOrder
  <1>6. ASSUME NEW u \in Seq(Nat), Below(s, u), Below(t, u)
        PROVE Below(Tail(s), u) /\ Below(Append(t, h), u)
    BY <1>1, <1>2, <1>6, AppendOrder, TailOrder
  <1>7. ASSUME NEW n \in Nat, UpTo(s, n), UpTo(t, n)
        PROVE UpTo(Tail(s), n) /\ UpTo(Append(t, h), n)
    BY <1>1, <1>2, <1>7, AppendOrder, TailOrder
  <1> QED BY <1>1, <1>3, <1>4, <1>5, <1>6, <1>7 DEF h

-----------------------------------------------------------------------------
(* Type correctness.                                                        *)

Value == 1..MaxItems

LEMMA Bounds == MaxItems \in Nat /\ Caps \subseteq Nat \ {0} /\ Kinds \subseteq Kind
  BY BoundsAssumption, KindsAssumption

LEMMA NoValues == <<>> \in Seq(Value) /\ Len(<<>>) = 0
  OBVIOUS

LEMMA TypeInit == Init => TypeOK
  <1> SUFFICES ASSUME Init PROVE TypeOK
    OBVIOUS
  <1>1. kind \in Kind /\ cap \in Nat \ {0} /\ Len(<<>>) <= cap /\ sent \in 0..MaxItems
    BY Bounds, NoValues DEF Init
  <1> QED BY <1>1, NoValues DEF Init, TypeOK, Value

LEMMA TypeSend == ASSUME TypeOK, Send PROVE TypeOK'
  <1>1. sent + 1 \in Value /\ sent' = sent + 1 /\ 0 < cap /\ cap \in Nat
    BY Bounds DEF Send, TypeOK, Value
  <1>2. src' \in Seq(Value) /\ Len(src') <= cap /\ lagged' \in BOOLEAN
    <2>0. src \in Seq(Value) /\ Len(src) \in Nat /\ Len(src) <= cap /\ lagged \in BOOLEAN
      BY DEF TypeOK, Value
    <2>1. CASE sent = 0 /\ src' = <<1>> /\ UNCHANGED lagged
      BY <1>1, <2>0, <2>1
    <2>2. CASE src' = <<sent + 1>> /\ UNCHANGED lagged
      BY <1>1, <2>0, <2>2
    <2>3. CASE Len(src) < cap /\ src' = Append(src, sent + 1) /\ UNCHANGED lagged
      BY <1>1, <2>0, <2>3
    <2>4. CASE Len(src) = cap /\ src' = Append(Tail(src), sent + 1) /\ lagged' = TRUE
      <3>1. src # <<>>
        BY <1>1, <2>4
      <3>2. Tail(src) \in Seq(Value) /\ Len(Tail(src)) = Len(src) - 1
        BY <2>0, <3>1, HeadAndTail
      <3> QED BY <1>1, <2>0, <2>4, <3>2
    <2> QED BY <2>1, <2>2, <2>3, <2>4 DEF Send
  <1> QED BY <1>1, <1>2, Bounds DEF Send, TypeOK, Value, readerVars

LEMMA TypeWriterStep == ASSUME TypeOK, WriterStep PROVE TypeOK'
  <1>1. src \in Seq(Value) /\ src # <<>> /\ fwd \in Seq(Value)
    BY DEF WriterStep, TypeOK, Value
  <1>2. /\ Head(src) \in Value /\ Tail(src) \in Seq(Value)
        /\ Len(src) \in Nat /\ Len(Tail(src)) = Len(src) - 1
    BY <1>1, HeadAndTail
  <1>3. fwd' \in Seq(Value)
    <2>1. Append(fwd, Head(src)) \in Seq(Value)
      BY <1>1, <1>2
    <2> QED BY <1>1, <2>1 DEF WriterStep
  <1>4. /\ src' \in Seq(Value) /\ Len(src') <= cap
        /\ {wtask', wdet'} \subseteq {"run", "done"}
    <2>1. CASE WriterStops
      BY <1>2, <2>1 DEF WriterStops, TypeOK, Value
    <2>2. CASE src' = Tail(src) /\ UNCHANGED <<wtask, wdet>>
      BY <1>2, <2>2 DEF TypeOK, Value
    <2> QED BY <2>1, <2>2 DEF WriterStep
  <1> QED BY <1>3, <1>4 DEF WriterStep, TypeOK, Value, readerVars, appVars

LEMMA TypeWriterEnds == ASSUME TypeOK, WriterEnd \/ WriterLags \/ WriterWatch PROVE TypeOK'
  <1>1. src' = <<>> /\ {wtask', wdet'} \subseteq {"run", "done"}
    BY DEF WriterEnd, WriterLags, WriterWatch, WriterStops, TypeOK
  <1>2. UNCHANGED <<kind, cap, lagged, fwd, back, readerVars, appVars, broken>>
    BY DEF WriterEnd, WriterLags, WriterWatch
  <1> QED BY <1>1, <1>2 DEF TypeOK, readerVars, appVars

\* dst keeps its type and its bound when a value is added.
LEMMA AddedType ==
  ASSUME TypeOK, HasRoom \/ kind \in OneShot, NEW v \in Value
  PROVE  Added(dst, v) \in Seq(Value) /\ Len(Added(dst, v)) <= cap
  <1>1. dst \in Seq(Value) /\ Len(dst) \in Nat /\ Len(dst) <= cap /\ 0 < cap /\ cap \in Nat
    BY DEF TypeOK, Value
  <1>2. CASE kind \in Watch \cup OneShot
    BY <1>1, <1>2 DEF Added
  <1>3. CASE kind \notin Watch \cup OneShot /\ kind = "broadcast_sender" /\ Len(dst) = cap
    <2>1. dst # <<>>
      BY <1>1, <1>3
    <2>2. Tail(dst) \in Seq(Value) /\ Len(Tail(dst)) = Len(dst) - 1
      BY <1>1, <2>1, HeadAndTail
    <2> QED BY <1>1, <1>3, <2>2 DEF Added
  <1>4. CASE kind \notin Watch \cup OneShot /\ ~(kind = "broadcast_sender" /\ Len(dst) = cap)
    <2>1. Len(dst) < cap
      BY <1>1, <1>4 DEF HasRoom, Lossy
    <2>2. Added(dst, v) = Append(dst, v)
      BY <1>4 DEF Added
    <2> QED BY <1>1, <2>1, <2>2
  <1> QED BY <1>2, <1>3, <1>4

LEMMA TypeReaderStep == ASSUME TypeOK, ReaderStep PROVE TypeOK'
  <1>1. Head(fwd) \in Value /\ fwd' \in Seq(Value)
    BY HeadAndTail DEF ReaderStep, TypeOK, Value
  <1>2. dst' \in Seq(Value) /\ Len(dst') <= cap
    BY <1>1, AddedType DEF ReaderStep, TypeOK, Value
  <1>3. {rtask', rdet'} \subseteq {"run", "done"}
    BY DEF ReaderStep, ReaderStops, TypeOK
  <1> QED BY <1>1, <1>2, <1>3 DEF ReaderStep, TypeOK, Value, writerVars, appVars

LEMMA TypeReaderEnds ==
  ASSUME TypeOK, ReaderEnd \/ ReaderWatch \/ WatchReceiverWatch PROVE TypeOK'
  <1>1. {rtask', rdet'} \subseteq {"run", "done"}
    BY DEF ReaderEnd, ReaderWatch, WatchReceiverWatch, ReaderStops, SenderWatch, ReceiverWatch,
           SelectWatch, TypeOK
  <1>2. UNCHANGED <<kind, cap, writerVars, fwd, back, dst, appVars, broken>>
    BY DEF ReaderEnd, ReaderWatch, WatchReceiverWatch
  <1> QED BY <1>1, <1>2 DEF TypeOK, writerVars, appVars

LEMMA TypeApps ==
  ASSUME TypeOK, DropSenders \/ Receive \/ SeeEnd \/ DropReceiver \/ OtherWayEnds
  PROVE  TypeOK'
  <1>1. CASE Receive
    <2>1. /\ Head(dst) \in Value /\ Tail(dst) \in Seq(Value) /\ Len(Tail(dst)) = Len(dst) - 1
          /\ Len(dst) \in Nat
      BY <1>1, HeadAndTail DEF Receive, TypeOK, Value
    <2>2. got' \in Seq(Value) /\ dst' \in Seq(Value) /\ Len(dst') <= cap
      BY <1>1, <2>1 DEF Receive, TypeOK, Value
    <2> QED BY <1>1, <2>2 DEF Receive, TypeOK, Value, writerVars
  <1>2. CASE DropReceiver
    <2>1. dst' = <<>> /\ Len(<<>>) <= cap
      BY <1>2, NoValues DEF DropReceiver, TypeOK
    <2> QED BY <1>2, <2>1, NoValues DEF DropReceiver, TypeOK, Value, writerVars
  <1>3. CASE DropSenders \/ SeeEnd \/ OtherWayEnds
    BY <1>3 DEF DropSenders, SeeEnd, OtherWayEnds, TypeOK, writerVars, readerVars, appVars
  <1> QED BY <1>1, <1>2, <1>3

LEMMA TypeBreak == ASSUME TypeOK, Break PROVE TypeOK'
  <1>1. PICK n \in 0..Len(fwd) : fwd' = SubSeq(fwd, 1, n)
    BY DEF Break
  <1>2. fwd' \in Seq(Value)
    <2>1. fwd \in Seq(Value) /\ Len(fwd) \in Nat
      BY DEF TypeOK, Value
    <2>2. \A i \in 1..n : fwd[i] \in Value
      BY <2>1, ElementOfSeq
    <2> QED BY <1>1, <2>1, <2>2, SubSeqProperties
  <1> QED BY <1>2 DEF Break, TypeOK, Value, writerVars, readerVars, appVars

\* Every variable has its type, and no channel holds more than its capacity.
THEOREM ChannelsTypes == Spec => []TypeOK
  <1>1. Init => TypeOK
    BY TypeInit
  <1>2. TypeOK /\ [Next]_vars => TypeOK'
    <2>1. TypeOK /\ Next => TypeOK'
      BY TypeSend, TypeWriterStep, TypeWriterEnds, TypeReaderStep, TypeReaderEnds, TypeApps, TypeBreak
         DEF Next, WriterTask, ReaderTask, ReaderWatchTask
    <2>2. TypeOK /\ UNCHANGED vars => TypeOK'
      BY DEF TypeOK, vars, writerVars, readerVars, appVars
    <2> QED BY <2>1, <2>2
  <1> QED BY <1>1, <1>2, PTL DEF Spec

-----------------------------------------------------------------------------
(* The inductive invariant.                                                 *)

LEMMA Types ==
  ASSUME TypeOK
  PROVE  /\ src \in Seq(Nat) /\ fwd \in Seq(Nat) /\ dst \in Seq(Nat) /\ got \in Seq(Nat)
         /\ Len(src) \in Nat /\ Len(fwd) \in Nat /\ Len(dst) \in Nat /\ Len(got) \in Nat
         /\ sent \in Nat
         /\ wtask \in {"run", "done"} /\ wdet \in {"run", "done"}
         /\ rtask \in {"run", "done"} /\ rdet \in {"run", "done"}
         /\ lagged \in BOOLEAN /\ back \in BOOLEAN /\ broken \in BOOLEAN
         /\ ended \in BOOLEAN /\ dstRx \in BOOLEAN
  <1>1. 1..MaxItems \subseteq Nat
    BY Bounds
  <1>2. src \in Seq(Nat) /\ fwd \in Seq(Nat) /\ dst \in Seq(Nat) /\ got \in Seq(Nat)
    BY <1>1, SeqMonotonic DEF TypeOK
  <1> QED BY <1>1, <1>2, Bounds DEF TypeOK

LEMMA InvInit == Init => ChannelInv
  <1> SUFFICES ASSUME Init PROVE ChannelInv
    OBVIOUS
  <1>1. got = <<>> /\ dst = <<>> /\ fwd = <<>> /\ src = <<>> /\ sent = 0 /\ <<>> \in Seq(Nat)
    BY DEF Init
  <1>2. Ordered
    BY <1>1, EmptyOrder DEF Ordered
  <1>3. Tasks
    BY <1>1 DEF Init, Tasks
  <1>4. Gapless
    BY <1>1 DEF Gapless
  <1>5. Complete
    BY <1>1 DEF Complete, Newest, Total, LastOf
  <1>6. AtEnd
    BY DEF Init, AtEnd
  <1> QED BY <1>2, <1>3, <1>4, <1>5, <1>6, TypeInit DEF ChannelInv

\* A oneshot holds one value, in one place.
LEMMA OneValue ==
  ASSUME ChannelInv, kind \in OneShot, fwd # <<>>
  PROVE  got = <<>> /\ dst = <<>> /\ Len(fwd) = 1 /\ Tail(fwd) = <<>> /\ wtask = "done" /\ src = <<>>
  <1>1. /\ fwd \in Seq(Nat) /\ got \in Seq(Nat) /\ dst \in Seq(Nat) /\ Len(fwd) \in Nat \ {0}
        /\ Len(got) \in Nat /\ Len(dst) \in Nat
        /\ \A i \in 1..Len(fwd) : fwd[i] \in Nat /\ fwd[i] <= 1
    <2>1. fwd \in Seq(Nat) /\ sent \in Nat /\ sent <= 1 /\ UpTo(fwd, sent)
      BY Types DEF ChannelInv, Tasks, Ordered
    <2>2. \A i \in 1..Len(fwd) : fwd[i] \in Nat
      BY <2>1, ElementOfSeq
    <2> QED BY <2>1, <2>2, EmptySeq, Types DEF ChannelInv, UpTo
  <1>2. \A i \in 1..Len(got) : 1 <= got[i] /\ got[i] \in Nat
    BY ElementOfSeq, Bounds DEF ChannelInv, TypeOK
  <1>3. \A i \in 1..Len(dst) : 1 <= dst[i] /\ dst[i] \in Nat
    BY ElementOfSeq, Bounds DEF ChannelInv, TypeOK
  <1>4. \A i \in 1..Len(fwd) : 1 <= fwd[i]
    BY ElementOfSeq, Bounds DEF ChannelInv, TypeOK
  <1>5. Len(got) = 0
    <2>1. \A i \in 1..Len(got) : got[i] < fwd[1]
      BY <1>1 DEF ChannelInv, Ordered, Below
    <2>2. ASSUME Len(got) # 0 PROVE FALSE
      <3>1. 1 \in 1..Len(got) /\ 1 \in 1..Len(fwd)
        BY <1>1, <2>2
      <3>2. got[1] < fwd[1] /\ 1 <= got[1] /\ fwd[1] <= 1 /\ got[1] \in Nat /\ fwd[1] \in Nat
        BY <1>1, <1>2, <2>1, <3>1
      <3> QED BY <3>2
    <2> QED BY <2>2
  <1>6. Len(dst) = 0
    <2>1. \A i \in 1..Len(dst) : dst[i] < fwd[1]
      BY <1>1 DEF ChannelInv, Ordered, Below
    <2>2. ASSUME Len(dst) # 0 PROVE FALSE
      <3>1. 1 \in 1..Len(dst) /\ 1 \in 1..Len(fwd)
        BY <1>1, <2>2
      <3>2. dst[1] < fwd[1] /\ 1 <= dst[1] /\ fwd[1] <= 1 /\ dst[1] \in Nat /\ fwd[1] \in Nat
        BY <1>1, <1>3, <2>1, <3>1
      <3> QED BY <3>2
    <2> QED BY <2>2
  <1>7. Len(fwd) = 1
    <2>1. ASSUME Len(fwd) # 1 PROVE FALSE
      <3>0. Len(fwd) \in Nat /\ Len(fwd) # 0
        BY <1>1
      <3>1. 1 \in 1..Len(fwd) /\ 2 \in 1..Len(fwd)
        BY <2>1, <3>0
      <3>2. fwd[1] < fwd[2]
        BY <3>1 DEF ChannelInv, Ordered, Rising
      <3>3. 1 <= fwd[1] /\ fwd[2] <= 1 /\ fwd[1] \in Nat /\ fwd[2] \in Nat
        BY <1>1, <1>4, <3>1
      <3> QED BY <3>2, <3>3
    <2> QED BY <2>1
  <1>8. Tail(fwd) \in Seq(Nat) /\ Len(Tail(fwd)) = 0
    BY <1>1, <1>7, HeadAndTail
  <1> QED BY <1>1, <1>5, <1>6, <1>7, <1>8, EmptySeq DEF ChannelInv, Tasks

LEMMA InvSend == ASSUME ChannelInv, Send PROVE ChannelInv'
  <1> DEFINE v == sent + 1
  <1>a. lagged' \in BOOLEAN /\ (lagged => lagged') /\ (lagged' => lagged \/ kind = "broadcast_receiver")
    <2>1. lagged \in BOOLEAN
      BY Types DEF ChannelInv
    <2>2. CASE UNCHANGED lagged
      BY <2>1, <2>2
    <2>3. CASE kind = "broadcast_receiver" /\ lagged' = TRUE
      BY <2>3
    <2> QED BY <2>2, <2>3 DEF Send
  <1>b. UNCHANGED <<kind, cap, wtask, wdet, fwd, back, rtask, rdet, dst, srcTx, dstRx, got, ended, broken>>
    BY DEF Send, readerVars
  <1>c. sent' = v /\ wtask = "run"
    BY DEF Send
  <1>1. /\ src \in Seq(Nat) /\ fwd \in Seq(Nat) /\ dst \in Seq(Nat) /\ got \in Seq(Nat)
        /\ sent \in Nat /\ v \in Nat /\ <<>> \in Seq(Nat)
        /\ Len(got) \in Nat /\ Len(dst) \in Nat /\ Len(fwd) \in Nat /\ Len(src) \in Nat
    BY Types DEF ChannelInv
  <1>2. PICK q \in Seq(Nat) :
          /\ src' = Append(q, v)
          /\ Rising(q) /\ UpTo(q, sent) /\ Below(got, q) /\ Below(dst, q) /\ Below(fwd, q)
          /\ kind \in OneShot => q = <<>> /\ sent = 0
          /\ kind \notin Lossy \cup OneShot => q = src
    <2>0. /\ Rising(src) /\ UpTo(src, sent) /\ Below(got, src) /\ Below(dst, src) /\ Below(fwd, src)
      BY DEF ChannelInv, Ordered
    <2>1. Append(<<>>, v) = <<v>>
      OBVIOUS
    <2>2. CASE kind \in OneShot /\ sent = 0 /\ src' = <<1>>
      <3>1. src' = Append(<<>>, v)
        BY <2>1, <2>2
      <3> QED BY <1>1, <2>2, <3>1, EmptyOrder DEF OneShot, Lossy, Watch
    <2>3. CASE kind \in Watch /\ src' = <<sent + 1>>
      BY <1>a, <1>b, <1>c, <1>1, <2>1, <2>3, EmptyOrder DEF OneShot, Lossy, Watch
    <2>4. CASE kind \notin OneShot \cup Watch /\ src' = Append(src, sent + 1)
      BY <1>a, <1>b, <1>c, <1>1, <2>0, <2>4
    <2>5. CASE kind = "broadcast_receiver" /\ Len(src) = cap /\ src' = Append(Tail(src), sent + 1)
      <3>1. src # <<>> /\ Tail(src) \in Seq(Nat)
        <4>1. Len(src) # 0 /\ Len(<<>>) = 0
          BY <2>5 DEF ChannelInv, TypeOK
        <4>2. src # <<>>
          BY <4>1
        <4> QED BY <1>a, <1>b, <1>c, <1>1, <4>2, HeadAndTail
      <3> QED BY <1>a, <1>b, <1>c, <1>1, <2>0, <2>5, <3>1, TailOrder DEF OneShot, Lossy, Watch
    <2> QED BY <2>2, <2>3, <2>4, <2>5 DEF Send
  <1>3. \A s \in Seq(Nat) : UpTo(s, sent) => UpTo(s, v) /\ \A i \in 1..Len(s) : s[i] < v
    <2> SUFFICES ASSUME NEW s \in Seq(Nat), UpTo(s, sent), NEW i \in 1..Len(s) PROVE s[i] < v /\ s[i] <= v
      BY DEF UpTo
    <2> QED BY <1>a, <1>b, <1>c, <1>1, ElementOfSeq DEF UpTo
  <1>4. Ordered'
    <2>1. /\ Rising(src') /\ UpTo(src', v) /\ Below(got, src') /\ Below(dst, src') /\ Below(fwd, src')
      <3>1. UpTo(got, sent) /\ UpTo(dst, sent) /\ UpTo(fwd, sent)
        BY DEF ChannelInv, Ordered
      <3>2. /\ \A i \in 1..Len(q) : q[i] < v
            /\ \A i \in 1..Len(got) : got[i] < v
            /\ \A i \in 1..Len(dst) : dst[i] < v
            /\ \A i \in 1..Len(fwd) : fwd[i] < v
        BY <1>1, <1>2, <1>3, <3>1
      <3>3. UpTo(q, v) /\ v <= v
        BY <1>1, <1>2, <1>3
      <3> HIDE DEF v
      <3>4. /\ Rising(Append(q, v)) /\ UpTo(Append(q, v), v) /\ Below(got, Append(q, v))
            /\ Below(dst, Append(q, v)) /\ Below(fwd, Append(q, v))
        BY <1>1, <1>2, <3>2, <3>3, AppendOrder
      <3> QED BY <1>2, <3>4
    <2> QED BY <1>a, <1>b, <1>c, <1>1, <1>3, <2>1 DEF ChannelInv, Ordered
  <1>5. Tasks'
    BY <1>a, <1>b, <1>c, <1>1, <1>2 DEF ChannelInv, Tasks
  <1>6. Gapless'
    <2>1. ASSUME kind \notin Lossy PROVE \A i \in 1..Len(src') : src'[i] = (sent' - Len(src')) + i
      <3>1. CASE kind \in OneShot
        BY <1>a, <1>b, <1>c, <1>1, <1>2, <3>1
      <3>2. CASE kind \notin OneShot
        <4>1. /\ Len(src) \in Nat /\ Len(src') = Len(src) + 1 /\ src'[Len(src) + 1] = v
              /\ \A i \in 1..Len(src) : src'[i] = src[i]
          BY <1>a, <1>b, <1>c, <1>1, <1>2, <2>1, <3>2, AppendProperties, LenProperties
        <4>2. \A i \in 1..Len(src) : src[i] = (sent - Len(src)) + i
          BY <2>1 DEF ChannelInv, Gapless
        <4> QED BY <1>a, <1>b, <1>c, <1>1, <4>1, <4>2
      <3> QED BY <3>1, <3>2
    <2> QED BY <1>a, <1>b, <1>c, <1>1, <2>1 DEF ChannelInv, Gapless
  <1>7. Complete'
    <2>1. Flowing' => Flowing
      BY <1>a, <1>b, <1>c, <1>1 DEF Flowing
    <2>2. Newest' = sent'
      <3>1. LastOf(fwd, LastOf(dst, LastOf(got, 0))) \in Nat
        BY <1>1, LastType
      <3>2. v \in Nat
        BY <1>1
      <3> HIDE DEF v
      <3>3. LastOf(Append(q, v), LastOf(fwd, LastOf(dst, LastOf(got, 0)))) = v
        BY <3>1, <3>2, LastAdded, Zenon
      <3> QED BY <1>2, <1>b, <1>c, <3>3 DEF Newest
    <2>3. ASSUME kind \notin Lossy, Flowing PROVE Total' = sent'
      <3>1. Total = sent /\ Len(got) \in Nat /\ Len(dst) \in Nat /\ Len(fwd) \in Nat /\ Len(src) \in Nat
        BY <2>3, LenProperties, <1>1 DEF ChannelInv, Complete
      <3>2. Len(src') = Len(src) + 1
        <4>1. CASE kind \in OneShot
          BY <1>a, <1>b, <1>c, <1>1, <1>2, <3>1, <4>1, AppendProperties DEF Total
        <4>2. CASE kind \notin OneShot
          BY <1>a, <1>b, <1>c, <1>1, <1>2, <2>3, <4>2, AppendProperties
        <4> QED BY <4>1, <4>2
      <3> QED BY <1>b, <1>c, <3>1, <3>2 DEF Total
    <2> QED BY <1>a, <1>b, <1>c, <1>1, <2>1, <2>2, <2>3 DEF Complete
  <1>8. AtEnd'
    BY <1>a, <1>b, <1>c, <1>1 DEF ChannelInv, AtEnd
  <1> QED BY <1>4, <1>5, <1>6, <1>7, <1>8, TypeSend DEF ChannelInv

LEMMA InvWriterStep == ASSUME ChannelInv, WriterStep PROVE ChannelInv'
  <1>1. /\ src \in Seq(Nat) /\ fwd \in Seq(Nat) /\ dst \in Seq(Nat) /\ got \in Seq(Nat)
        /\ sent \in Nat /\ src # <<>> /\ <<>> \in Seq(Nat)
        /\ Len(got) \in Nat /\ Len(dst) \in Nat /\ Len(fwd) \in Nat /\ Len(src) \in Nat
    BY Types DEF WriterStep, ChannelInv
  <1>2. UNCHANGED <<kind, cap, lagged, back, rtask, rdet, dst, srcTx, dstRx, sent, got, ended, broken>>
    BY DEF WriterStep, readerVars, appVars
  <1>3. wtask = "run" /\ (wtask' = "done" => src' = <<>>) /\ (kind \in OneShot => wtask' = "done")
    BY DEF WriterStep, WriterStops, ChannelInv
  <1>4. /\ Tail(src) \in Seq(Nat) /\ Head(src) = src[1] /\ Head(src) \in Nat
        /\ Len(Tail(src)) = Len(src) - 1 /\ \A i \in 1..Len(Tail(src)) : Tail(src)[i] = src[i + 1]
    BY <1>1, HeadAndTail
  <1>5. src' = <<>> \/ src' = Tail(src)
    BY DEF WriterStep, WriterStops
  <1>6. CASE Down
    <2>1. fwd' = fwd
      BY <1>6 DEF WriterStep
    <2>2. Ordered'
      <3>1. Rising(src') /\ Below(got, src') /\ Below(dst, src') /\ Below(fwd, src') /\ UpTo(src', sent)
        <4>1. CASE src' = <<>>
          BY <1>1, <4>1, EmptyOrder
        <4>2. CASE src' = Tail(src)
          BY <1>1, <4>2, TailOrder DEF ChannelInv, Ordered
        <4> QED BY <1>5, <4>1, <4>2
      <3> QED BY <1>2, <2>1, <3>1 DEF ChannelInv, Ordered
    <2>3. ~Flowing /\ ~Flowing'
      BY <1>2, <1>3, <1>6 DEF Flowing, Down, ChannelInv, Tasks
    <2>4. Tasks'
      BY <1>2, <1>3, <2>1 DEF ChannelInv, Tasks
    <2>5. Gapless'
      <3>1. ASSUME kind \notin Lossy PROVE \A i \in 1..Len(src') : src'[i] = (sent - Len(src')) + i
        <4>1. \A i \in 1..Len(src) : src[i] = (sent - Len(src)) + i
          BY <3>1 DEF ChannelInv, Gapless
        <4>2. CASE src' = <<>>
          BY <4>2
        <4>3. CASE src' = Tail(src)
          BY <1>1, <1>4, <4>1, <4>3
        <4> QED BY <1>5, <4>2, <4>3
      <3> QED BY <1>2, <2>1, <3>1 DEF ChannelInv, Gapless
    <2>6. Complete' /\ AtEnd'
      BY <1>2, <1>3, <2>3 DEF Complete, AtEnd, ChannelInv
    <2> QED BY <2>2, <2>4, <2>5, <2>6, TypeWriterStep DEF ChannelInv
  <1>7. CASE ~Down
    <2>1. fwd' = Append(fwd, Head(src))
      BY <1>7 DEF WriterStep
    <2>2. src' = Tail(src)
      <3>1. CASE kind \in OneShot
        <4>1. \A i \in 1..Len(src) : src[i] = (sent - Len(src)) + i
          BY <3>1 DEF ChannelInv, Gapless, OneShot, Lossy, Watch
        <4>2. Len(src) # 0 /\ sent <= 1 /\ 1 <= src[1]
          <5>1. Len(src) # 0
            BY <1>1, EmptySeq
          <5>2. src[1] \in Value
            <6>1. src \in Seq(Value) /\ 1 \in 1..Len(src)
              BY <1>1, <5>1 DEF ChannelInv, TypeOK, Value
            <6> QED BY <6>1, ElementOfSeq
          <5> QED BY <3>1, <5>1, <5>2, Bounds DEF ChannelInv, Tasks, Value
        <4>3. src[1] = (sent - Len(src)) + 1
          BY <1>1, <4>1, <4>2
        <4>4. Len(Tail(src)) = 0
          BY <1>1, <1>4, <4>2, <4>3
        <4> QED BY <1>4, <1>5, <4>4, EmptySeq
      <3>2. CASE kind \notin OneShot
        BY <1>7, <3>2 DEF WriterStep
      <3> QED BY <3>1, <3>2
    <2>3. Ordered'
      BY <1>1, <1>2, <2>1, <2>2, MoveOrder DEF ChannelInv, Ordered
    <2>4. Tasks'
      BY <1>2, <1>3 DEF ChannelInv, Tasks
    <2>5. Flowing' => Flowing
      BY <1>2, <1>3 DEF Flowing
    <2>6. Gapless'
      <3>1. ASSUME kind \notin Lossy PROVE \A i \in 1..Len(src') : src'[i] = (sent - Len(src')) + i
        <4>1. \A i \in 1..Len(src) : src[i] = (sent - Len(src)) + i
          BY <3>1 DEF ChannelInv, Gapless
        <4> QED BY <1>1, <1>4, <2>2, <4>1
      <3>2. ASSUME kind \notin Lossy, dstRx, rtask = "run"
            PROVE \A i \in 1..Len(fwd') : fwd'[i] = Len(got) + Len(dst) + i
        <4>1. Total = sent
          BY <1>3, <1>7, <3>2 DEF ChannelInv, Complete, Flowing, Down
        <4>2. src[1] = (sent - Len(src)) + 1
          <5>1. 1 \in 1..Len(src)
            BY <1>1, EmptySeq
          <5> QED BY <3>2, <5>1 DEF ChannelInv, Gapless
        <4>3. Head(src) = Len(got) + Len(dst) + Len(fwd) + 1
          BY <1>1, <1>4, <4>1, <4>2 DEF Total
        <4>4. /\ Len(fwd') = Len(fwd) + 1 /\ fwd'[Len(fwd) + 1] = Head(src)
              /\ \A i \in 1..Len(fwd) : fwd'[i] = fwd[i]
          BY <1>1, <1>4, <2>1, AppendProperties
        <4>5. \A i \in 1..Len(fwd) : fwd[i] = Len(got) + Len(dst) + i
          BY <3>2 DEF ChannelInv, Gapless
        <4>6. Len(fwd) + 1 \in Nat /\ fwd'[Len(fwd) + 1] = Len(got) + Len(dst) + (Len(fwd) + 1)
          BY <1>1, <4>3, <4>4
        <4>7. \A i \in 1..Len(fwd') : i \in 1..Len(fwd) \/ i = Len(fwd) + 1
          <5>1. Len(fwd) \in Nat /\ Len(fwd') = Len(fwd) + 1
            BY <1>1, <4>4
          <5> QED BY <5>1
        <4> QED BY <4>4, <4>5, <4>6, <4>7
      <3> QED BY <1>2, <3>1, <3>2 DEF ChannelInv, Gapless
    <2>7. Complete'
      <3>1. Newest' = Newest
        <4>1. LastOf(dst, LastOf(got, 0)) \in Nat
          BY <1>1, LastType
        <4>2. LastOf(Tail(src), LastOf(Append(fwd, Head(src)), LastOf(dst, LastOf(got, 0)))) = Newest
          BY <1>1, <4>1, LastMoves DEF Newest
        <4> QED BY <1>2, <2>1, <2>2, <4>2 DEF Newest
      <3>2. Total' = Total
        <4>1. Len(fwd') = Len(fwd) + 1 /\ Len(src') = Len(src) - 1
          BY <1>1, <1>4, <2>1, <2>2, AppendProperties
        <4> QED BY <1>1, <1>2, <4>1 DEF Total
      <3> QED BY <1>2, <2>5, <3>1, <3>2 DEF ChannelInv, Complete
    <2>8. AtEnd'
      BY <1>2, <1>3 DEF ChannelInv, AtEnd
    <2> QED BY <2>3, <2>4, <2>6, <2>7, <2>8, TypeWriterStep DEF ChannelInv
  <1> QED BY <1>6, <1>7

\* However the writer ends, nothing is left in src unless the channel has failed.
LEMMA InvWriterEnds == ASSUME ChannelInv, WriterEnd \/ WriterLags \/ WriterWatch PROVE ChannelInv'
  <1>1. /\ src \in Seq(Nat) /\ fwd \in Seq(Nat) /\ dst \in Seq(Nat) /\ got \in Seq(Nat)
        /\ sent \in Nat
    BY Types DEF ChannelInv
  <1>2. UNCHANGED <<kind, cap, lagged, fwd, back, rtask, rdet, dst, srcTx, dstRx, sent, got, ended, broken>>
    BY DEF WriterEnd, WriterLags, WriterWatch, readerVars, appVars
  <1>3. wtask' = "done" /\ src' = <<>>
    BY DEF WriterEnd, WriterLags, WriterWatch, WriterStops
  <1>4. Flowing' => Flowing /\ src = <<>>
    <2> SUFFICES ASSUME Flowing' PROVE Flowing /\ src = <<>>
      OBVIOUS
    <2>1. dstRx /\ ~broken /\ ~back /\ ~lagged
      BY <1>2, <1>3 DEF Flowing
    <2>a. Flowing
      BY <2>1 DEF Flowing
    <2>2. CASE WriterEnd
      BY <2>a, <2>2 DEF WriterEnd
    <2>3. CASE WriterLags
      BY <2>1, <2>3 DEF WriterLags
    <2>4. CASE WriterWatch
      <3>1. rdet = "done"
        BY <2>1, <2>4 DEF WriterWatch, BackClosed
      <3>2. rtask = "done"
        BY <2>1, <3>1, Types DEF ChannelInv, Tasks
      <3> QED BY <2>1, <2>a, <3>2 DEF ChannelInv, Tasks
    <2> QED BY <2>2, <2>3, <2>4
  <1>5. Ordered'
    BY <1>1, <1>2, <1>3, EmptyOrder DEF ChannelInv, Ordered
  <1>6. Tasks'
    BY <1>2, <1>3 DEF ChannelInv, Tasks
  <1>7. Gapless'
    <2>1. \A i \in 1..Len(src') : src'[i] = (sent' - Len(src')) + i
      BY <1>3
    <2> QED BY <1>2, <2>1 DEF ChannelInv, Gapless
  <1>8. Complete'
    BY <1>2, <1>3, <1>4 DEF ChannelInv, Complete, Newest, Total
  <1>9. AtEnd'
    BY <1>2, <1>3 DEF ChannelInv, AtEnd
  <1> QED BY <1>5, <1>6, <1>7, <1>8, <1>9, TypeWriterEnds DEF ChannelInv

\* A value is added to dst, or to what is left of it where values may be skipped.
LEMMA AddedOrder ==
  ASSUME ChannelInv, fwd # <<>>
  PROVE  \E q \in Seq(Nat) :
           /\ Added(dst, Head(fwd)) = Append(q, Head(fwd))
           /\ Rising(q) /\ UpTo(q, sent) /\ Below(got, q) /\ Below(q, fwd) /\ Below(q, src)
           /\ kind \notin Lossy => q = dst
  <1>1. /\ src \in Seq(Nat) /\ fwd \in Seq(Nat) /\ dst \in Seq(Nat) /\ got \in Seq(Nat)
        /\ <<>> \in Seq(Nat) /\ Head(fwd) \in Nat
    BY Types, HeadAndTail DEF ChannelInv
  <1>2. Rising(dst) /\ UpTo(dst, sent) /\ Below(got, dst) /\ Below(dst, fwd) /\ Below(dst, src)
    BY DEF ChannelInv, Ordered
  <1>3. CASE kind \in Watch \cup OneShot
    <2>1. Added(dst, Head(fwd)) = Append(<<>>, Head(fwd))
      BY <1>3 DEF Added
    <2>2. kind \in OneShot => <<>> = dst
      BY OneValue
    <2> QED BY <1>1, <1>3, <2>1, <2>2, EmptyOrder DEF Lossy
  <1>4. CASE kind \notin Watch \cup OneShot /\ kind = "broadcast_sender" /\ Len(dst) = cap
    <2>1. dst # <<>>
      <3>1. Len(dst) # 0 /\ Len(<<>>) = 0
        BY <1>4 DEF ChannelInv, TypeOK
      <3> QED BY <3>1
    <2>2. Tail(dst) \in Seq(Nat)
      BY <1>1, <2>1, HeadAndTail
    <2>3. Added(dst, Head(fwd)) = Append(Tail(dst), Head(fwd))
      BY <1>4 DEF Added
    <2>4. /\ Rising(Tail(dst)) /\ Below(got, Tail(dst)) /\ Below(Tail(dst), fwd)
          /\ Below(Tail(dst), src) /\ UpTo(Tail(dst), sent)
      BY <1>1, <1>2, <2>1, TailOrder, Types DEF ChannelInv
    <2> QED BY <1>4, <2>2, <2>3, <2>4 DEF Lossy
  <1>5. CASE kind \notin Watch \cup OneShot /\ ~(kind = "broadcast_sender" /\ Len(dst) = cap)
    <2>1. Added(dst, Head(fwd)) = Append(dst, Head(fwd))
      BY <1>5 DEF Added
    <2> QED BY <1>1, <1>2, <2>1
  <1> QED BY <1>3, <1>4, <1>5

LEMMA InvReaderStep == ASSUME ChannelInv, ReaderStep PROVE ChannelInv'
  <1>1. /\ src \in Seq(Nat) /\ fwd \in Seq(Nat) /\ dst \in Seq(Nat) /\ got \in Seq(Nat)
        /\ sent \in Nat /\ fwd # <<>>
        /\ Len(got) \in Nat /\ Len(dst) \in Nat /\ Len(fwd) \in Nat /\ Len(src) \in Nat
    BY Types DEF ReaderStep, ChannelInv
  <1>2. UNCHANGED <<kind, cap, src, lagged, wtask, wdet, back, srcTx, dstRx, sent, got, ended, broken>>
    BY DEF ReaderStep, writerVars, appVars
  <1>3. rtask = "run" /\ fwd' = Tail(fwd) /\ ~ended
    BY DEF ReaderStep, ChannelInv, Tasks
  <1>4. /\ Tail(fwd) \in Seq(Nat) /\ Head(fwd) = fwd[1] /\ Head(fwd) \in Nat
        /\ Len(Tail(fwd)) = Len(fwd) - 1 /\ \A i \in 1..Len(Tail(fwd)) : Tail(fwd)[i] = fwd[i + 1]
    BY <1>1, HeadAndTail
  <1>5. AtEnd'
    BY <1>2, <1>3 DEF AtEnd
  <1>6. CASE /\ dst' = Added(dst, Head(fwd)) /\ (dstRx \/ kind = "watch_receiver")
             /\ \/ UNCHANGED <<rtask, rdet>>
                \/ kind \in OneShot /\ rtask' = "done"
    <2>1. PICK q \in Seq(Nat) :
            /\ dst' = Append(q, Head(fwd))
            /\ Rising(q) /\ UpTo(q, sent) /\ Below(got, q) /\ Below(q, fwd) /\ Below(q, src)
            /\ kind \notin Lossy => q = dst
      BY <1>1, <1>6, AddedOrder
    <2>2. Ordered'
      BY <1>1, <1>2, <1>3, <2>1, MoveOrder DEF ChannelInv, Ordered
    <2>3. Tasks'
      <3>1. CASE UNCHANGED <<rtask, rdet>>
        BY <1>1, <1>2, <1>3, <3>1 DEF ChannelInv, Tasks
      <3>2. CASE kind \in OneShot /\ rtask' = "done"
        BY <1>1, <1>2, <1>3, <3>2, OneValue DEF ChannelInv, Tasks
      <3> QED BY <1>6, <3>1, <3>2
    <2>4. Gapless'
      <3>1. ASSUME kind \notin Lossy
            PROVE  /\ \A i \in 1..Len(dst') : dst'[i] = Len(got) + i
                   /\ \A i \in 1..Len(fwd') : fwd'[i] = Len(got) + Len(dst') + i
        <4>1. dstRx
          BY <1>6, <3>1 DEF Lossy, Watch
        <4>2. /\ \A i \in 1..Len(dst) : dst[i] = Len(got) + i
              /\ \A i \in 1..Len(fwd) : fwd[i] = Len(got) + Len(dst) + i
          BY <1>3, <3>1, <4>1 DEF ChannelInv, Gapless
        <4>3. /\ Len(dst') = Len(dst) + 1 /\ dst'[Len(dst) + 1] = Head(fwd)
              /\ \A i \in 1..Len(dst) : dst'[i] = dst[i]
          BY <1>4, <2>1, <3>1, AppendProperties
        <4>4. Head(fwd) = Len(got) + Len(dst) + 1
          <5>1. 1 \in 1..Len(fwd)
            BY <1>1, EmptySeq
          <5> QED BY <1>1, <1>4, <4>2, <5>1
        <4>5. \A i \in 1..Len(dst') : i \in 1..Len(dst) \/ i = Len(dst) + 1
          <5>1. Len(dst) \in Nat /\ Len(dst') = Len(dst) + 1
            BY <1>1, <4>3
          <5> QED BY <5>1
        <4>6. dst'[Len(dst) + 1] = Len(got) + (Len(dst) + 1)
          BY <1>1, <4>3, <4>4
        <4>7. \A i \in 1..Len(dst') : dst'[i] = Len(got) + i
          BY <4>2, <4>3, <4>5, <4>6
        <4>8. \A i \in 1..Len(fwd') : fwd'[i] = Len(got) + Len(dst') + i
          BY <1>1, <1>3, <1>4, <4>2, <4>3
        <4> QED BY <4>7, <4>8
      <3> QED BY <1>2, <3>1 DEF ChannelInv, Gapless
    <2>5. Complete'
      <3>1. Newest' = Newest
        <4>1. LastOf(got, 0) \in Nat
          BY <1>1, LastType
        <4>2. LastOf(Tail(fwd), LastOf(Append(q, Head(fwd)), LastOf(got, 0)))
                = LastOf(fwd, LastOf(q, LastOf(got, 0)))
          BY <1>1, <4>1, LastMoves
        <4>3. LastOf(fwd, LastOf(q, LastOf(got, 0))) = LastOf(fwd, LastOf(dst, LastOf(got, 0)))
          BY <1>1 DEF LastOf
        <4> QED BY <1>2, <1>3, <2>1, <4>2, <4>3 DEF Newest
      <3>2. ASSUME kind \notin Lossy PROVE Total' = Total
        <4>1. Len(dst') = Len(dst) + 1
          BY <1>1, <1>4, <2>1, <3>2, AppendProperties
        <4>2. Len(fwd') = Len(fwd) - 1
          BY <1>3, <1>4
        <4> QED BY <1>1, <1>2, <4>1, <4>2 DEF Total
      <3> QED BY <1>2, <3>1, <3>2 DEF ChannelInv, Complete, Flowing
    <2> QED BY <1>5, <2>2, <2>3, <2>4, <2>5, TypeReaderStep DEF ChannelInv
  <1>7. CASE ~dstRx /\ UNCHANGED dst
    <2>1. Ordered'
      BY <1>1, <1>2, <1>3, <1>7, TailOrder DEF ChannelInv, Ordered
    <2>2. Tasks'
      BY <1>1, <1>2, <1>3, <1>7 DEF ChannelInv, Tasks
    <2>3. Gapless'
      BY <1>2, <1>7 DEF ChannelInv, Gapless
    <2>4. Complete'
      BY <1>2, <1>7 DEF Complete, Flowing
    <2> QED BY <1>5, <2>1, <2>2, <2>3, <2>4, TypeReaderStep DEF ChannelInv
  <1> QED BY <1>6, <1>7 DEF ReaderStep, ReaderStops

LEMMA InvReaderEnds ==
  ASSUME ChannelInv, ReaderEnd \/ ReaderWatch \/ WatchReceiverWatch PROVE ChannelInv'
  <1>1. UNCHANGED <<kind, cap, src, lagged, wtask, wdet, fwd, back, dst, srcTx, dstRx, sent, got, ended, broken>>
    BY DEF ReaderEnd, ReaderWatch, WatchReceiverWatch, writerVars, appVars
  <1>2. rtask' \in {rtask, "done"}
    BY DEF ReaderEnd, ReaderWatch, WatchReceiverWatch, ReaderStops, SenderWatch, ReceiverWatch, SelectWatch
  <1>3. Tasks'
    <2>1. CASE ReaderEnd
      <3>1. rtask' = "done" /\ fwd = <<>> /\ (wtask = "done" \/ broken)
        BY <2>1 DEF ReaderEnd, ReaderStops
      <3> QED BY <1>1, <3>1 DEF ChannelInv, Tasks
    <2>2. CASE ReaderWatch
      <3>1. ~dstRx
        BY <2>2 DEF ReaderWatch
      <3> QED BY <1>1, <1>2, <3>1 DEF ChannelInv, Tasks
    <2>3. CASE WatchReceiverWatch
      <3>1. rtask = "done" /\ rtask' = "done"
        BY <2>3 DEF WatchReceiverWatch
      <3> QED BY <1>1, <3>1 DEF ChannelInv, Tasks
    <2> QED BY <2>1, <2>2, <2>3
  <1>4. Ordered'
    BY <1>1 DEF ChannelInv, Ordered
  <1>5. Gapless'
    <2>1. rtask' = "run" => rtask = "run"
      BY <1>2
    <2> QED BY <1>1, <2>1 DEF ChannelInv, Gapless
  <1>6. Complete' /\ AtEnd'
    BY <1>1 DEF ChannelInv, Complete, Flowing, Newest, Total, AtEnd
  <1> QED BY <1>3, <1>4, <1>5, <1>6, TypeReaderEnds DEF ChannelInv

LEMMA InvReceive == ASSUME ChannelInv, Receive PROVE ChannelInv'
  <1>1. /\ src \in Seq(Nat) /\ fwd \in Seq(Nat) /\ dst \in Seq(Nat) /\ got \in Seq(Nat)
        /\ sent \in Nat /\ dst # <<>>
        /\ Len(got) \in Nat /\ Len(dst) \in Nat /\ Len(fwd) \in Nat /\ Len(src) \in Nat
    BY Types DEF Receive, ChannelInv
  <1>2. UNCHANGED <<kind, cap, src, lagged, wtask, wdet, fwd, back, rtask, rdet, srcTx, dstRx, sent, ended, broken>>
    BY DEF Receive, writerVars
  <1>3. dst' = Tail(dst) /\ got' = Append(got, Head(dst)) /\ dstRx /\ ~ended
    BY DEF Receive, ChannelInv, Tasks
  <1>4. /\ Tail(dst) \in Seq(Nat) /\ Head(dst) = dst[1] /\ Head(dst) \in Nat
        /\ Len(Tail(dst)) = Len(dst) - 1 /\ \A i \in 1..Len(Tail(dst)) : Tail(dst)[i] = dst[i + 1]
    BY <1>1, HeadAndTail
  <1>5. /\ Len(got') = Len(got) + 1 /\ got'[Len(got) + 1] = Head(dst)
        /\ \A i \in 1..Len(got) : got'[i] = got[i]
    BY <1>1, <1>3, <1>4, AppendProperties
  <1>6. Ordered'
    BY <1>1, <1>2, <1>3, MoveOrder DEF ChannelInv, Ordered
  <1>7. Tasks'
    BY <1>2, <1>3 DEF ChannelInv, Tasks
  <1>8. Gapless'
    <2>1. ASSUME kind \notin Lossy
          PROVE  /\ \A i \in 1..Len(got') : got'[i] = i
                 /\ \A i \in 1..Len(dst') : dst'[i] = Len(got') + i
                 /\ rtask = "run" => \A i \in 1..Len(fwd) : fwd[i] = Len(got') + Len(dst') + i
      <3>1. /\ \A i \in 1..Len(got) : got[i] = i
            /\ \A i \in 1..Len(dst) : dst[i] = Len(got) + i
            /\ rtask = "run" => \A i \in 1..Len(fwd) : fwd[i] = Len(got) + Len(dst) + i
        BY <1>3, <2>1 DEF ChannelInv, Gapless
      <3>2. 1 \in 1..Len(dst)
        BY <1>1, EmptySeq
      <3>3. Head(dst) = Len(got) + 1
        BY <1>4, <3>1, <3>2
      <3>4. \A i \in 1..Len(got') : i \in 1..Len(got) \/ i = Len(got) + 1
        <4>1. Len(got) \in Nat /\ Len(got') = Len(got) + 1
          BY <1>1, <1>5
        <4> QED BY <4>1
      <3>5. \A i \in 1..Len(got') : got'[i] = i
        BY <1>5, <3>1, <3>3, <3>4
      <3>6. \A i \in 1..Len(dst') : dst'[i] = Len(got') + i
        BY <1>1, <1>3, <1>4, <1>5, <3>1
      <3>7. Len(got') + Len(dst') = Len(got) + Len(dst)
        BY <1>1, <1>3, <1>4, <1>5
      <3> QED BY <3>1, <3>5, <3>6, <3>7
    <2> QED BY <1>2, <2>1 DEF ChannelInv, Gapless
  <1>9. Complete'
    <2>1. LastOf(Tail(dst), LastOf(Append(got, Head(dst)), 0)) = LastOf(dst, LastOf(got, 0))
      BY <1>1, LastMoves
    <2>2. Newest' = Newest
      BY <1>2, <1>3, <2>1 DEF Newest
    <2>3. Total' = Total
      <3>1. Len(dst') = Len(dst) - 1
        BY <1>3, <1>4
      <3> QED BY <1>1, <1>2, <1>5, <3>1 DEF Total
    <2> QED BY <1>2, <2>2, <2>3 DEF ChannelInv, Complete, Flowing
  <1>10. AtEnd'
    BY <1>2, <1>3 DEF AtEnd
  <1> QED BY <1>6, <1>7, <1>8, <1>9, <1>10, TypeApps DEF ChannelInv

LEMMA InvSeeEnd == ASSUME ChannelInv, SeeEnd PROVE ChannelInv'
  <1>1. UNCHANGED <<kind, cap, src, lagged, wtask, wdet, fwd, back, rtask, rdet, dst, srcTx, dstRx, sent, got, broken>>
    BY DEF SeeEnd, writerVars, readerVars
  <1>2. dst = <<>> /\ rtask = "done" /\ dstRx
    BY Types DEF SeeEnd, DstOpen, ChannelInv
  <1>3. Tasks'
    BY <1>1, <1>2 DEF ChannelInv, Tasks
  <1>4. AtEnd'
    <2> SUFFICES ASSUME ~broken, ~lagged, ~back
                 PROVE  wtask = "done" /\ LastOf(got, 0) = sent /\ (kind \notin Lossy => Len(got) = sent)
      BY <1>1 DEF AtEnd
    <2>1. wtask = "done" /\ fwd = <<>> /\ src = <<>>
      BY <1>2 DEF ChannelInv, Tasks
    <2>2. Newest = sent /\ (kind \notin Lossy => Total = sent)
      BY <1>2 DEF ChannelInv, Complete, Flowing
    <2>3. Newest = LastOf(got, 0)
      BY <1>2, <2>1 DEF Newest, LastOf
    <2>4. Total = Len(got)
      <3>1. Total = Len(got) + 0 + 0 + 0 /\ Len(got) \in Nat
        BY <1>2, <2>1, EmptySeq, Types DEF Total, ChannelInv
      <3> QED BY <3>1
    <2> QED BY <2>1, <2>2, <2>3, <2>4
  <1>5. Ordered' /\ Gapless'
    BY <1>1 DEF ChannelInv, Ordered, Gapless
  <1>6. Complete'
    BY <1>1 DEF ChannelInv, Complete, Flowing, Newest, Total
  <1> QED BY <1>3, <1>4, <1>5, <1>6, TypeApps DEF ChannelInv

LEMMA InvOtherApps == ASSUME ChannelInv, DropSenders \/ DropReceiver \/ OtherWayEnds PROVE ChannelInv'
  <1>1. UNCHANGED <<kind, cap, src, lagged, wtask, wdet, fwd, rtask, rdet, sent, got, ended, broken>>
    BY DEF DropSenders, DropReceiver, OtherWayEnds, writerVars, readerVars, appVars
  <1>2. /\ UNCHANGED dst \/ (dst' = <<>> /\ ~dstRx')
        /\ UNCHANGED dstRx \/ ~dstRx'
        /\ UNCHANGED back \/ (back' /\ kind = "wire_channel")
    BY DEF DropSenders, DropReceiver, OtherWayEnds, writerVars, readerVars, appVars
  <1>3. Ordered'
    <2>1. CASE UNCHANGED dst
      BY <1>1, <2>1 DEF ChannelInv, Ordered
    <2>2. CASE dst' = <<>>
      BY <1>1, <2>2, EmptyOrder, Types DEF ChannelInv, Ordered
    <2> QED BY <1>2, <2>1, <2>2
  <1>4. Tasks'
    BY <1>1, <1>2, Types DEF ChannelInv, Tasks
  <1>5. Gapless'
    BY <1>1, <1>2, Types DEF ChannelInv, Gapless
  <1>6. Complete'
    <2>1. Flowing' => Flowing /\ UNCHANGED dst
      BY <1>1, <1>2, Types DEF Flowing, ChannelInv
    <2> QED BY <1>1, <2>1 DEF ChannelInv, Complete, Newest, Total
  <1>7. AtEnd'
    BY <1>1, <1>2, Types DEF ChannelInv, AtEnd
  <1> QED BY <1>3, <1>4, <1>5, <1>6, <1>7, TypeApps DEF ChannelInv

LEMMA InvBreak == ASSUME ChannelInv, Break PROVE ChannelInv'
  <1>1. /\ src \in Seq(Nat) /\ fwd \in Seq(Nat) /\ dst \in Seq(Nat) /\ got \in Seq(Nat)
        /\ sent \in Nat /\ Len(fwd) \in Nat
    BY Types DEF ChannelInv
  <1>2. UNCHANGED <<kind, cap, src, lagged, wtask, wdet, back, rtask, rdet, dst, srcTx, dstRx, sent, got, ended>>
    BY DEF Break, writerVars, readerVars, appVars
  <1>3. broken'
    BY DEF Break
  <1>4. PICK n \in 0..Len(fwd) : fwd' = SubSeq(fwd, 1, n)
    BY DEF Break
  <1>5. Len(fwd') = n /\ \A i \in 1..n : fwd'[i] = fwd[i]
    BY <1>1, <1>4, PrefixOrder
  <1>6. fwd = <<>> => fwd' = <<>>
    BY <1>4, SubSeqEmpty
  <1>7. Ordered'
    BY <1>1, <1>2, <1>4, PrefixOrder DEF ChannelInv, Ordered
  <1>8. Tasks'
    BY <1>2, <1>3, <1>6 DEF ChannelInv, Tasks
  <1>9. Gapless'
    <2>1. \A i \in 1..Len(fwd') : i \in 1..Len(fwd) /\ fwd'[i] = fwd[i]
      BY <1>1, <1>5
    <2> QED BY <1>2, <2>1 DEF ChannelInv, Gapless
  <1>10. Complete' /\ AtEnd'
    BY <1>3 DEF Complete, Flowing, AtEnd
  <1> QED BY <1>7, <1>8, <1>9, <1>10, TypeBreak DEF ChannelInv

LEMMA InvStep == ChannelInv /\ [Next]_vars => ChannelInv'
  <1>1. ChannelInv /\ Next => ChannelInv'
    BY InvSend, InvWriterStep, InvWriterEnds, InvReaderStep, InvReaderEnds, InvReceive, InvSeeEnd,
       InvOtherApps, InvBreak DEF Next, WriterTask, ReaderTask, ReaderWatchTask
  <1>2. ASSUME ChannelInv, UNCHANGED vars PROVE ChannelInv'
    <2>1. TypeOK'
      BY <1>2 DEF vars, writerVars, readerVars, appVars, ChannelInv, TypeOK
    <2>2. UNCHANGED <<kind, src, lagged, wtask, fwd, back, rtask, rdet, dst, dstRx, sent, got, ended, broken>>
      BY <1>2 DEF vars, writerVars, readerVars, appVars
    <2>3. Ordered' /\ Tasks' /\ Gapless'
      BY <1>2, <2>2 DEF ChannelInv, Ordered, Tasks, Gapless
    <2>4. Complete' /\ AtEnd'
      BY <1>2, <2>2 DEF ChannelInv, Complete, Flowing, Newest, Total, AtEnd
    <2> QED BY <2>1, <2>3, <2>4 DEF ChannelInv
  <1> QED BY <1>1, <1>2

LEMMA Invariance == Spec => []ChannelInv
  BY InvInit, InvStep, PTL DEF Spec

-----------------------------------------------------------------------------
(* What the channel promises.                                               *)

LEMMA ConcatOrder ==
  ASSUME NEW s \in Seq(Nat), NEW t \in Seq(Nat), Rising(s), Rising(t), Below(s, t)
  PROVE  /\ s \o t \in Seq(Nat) /\ Rising(s \o t)
         /\ \A u \in Seq(Nat) : Below(s, u) /\ Below(t, u) => Below(s \o t, u)
  <1>1. /\ s \o t \in Seq(Nat) /\ Len(s \o t) = Len(s) + Len(t)
        /\ Len(s) \in Nat /\ Len(t) \in Nat
        /\ \A i \in 1..Len(s \o t) :
             \/ i \in 1..Len(s) /\ (s \o t)[i] = s[i]
             \/ i - Len(s) \in 1..Len(t) /\ (s \o t)[i] = t[i - Len(s)]
    <2>1. /\ s \o t \in Seq(Nat) /\ Len(s \o t) = Len(s) + Len(t)
          /\ \A i \in 1..Len(s) + Len(t) :
               (s \o t)[i] = IF i <= Len(s) THEN s[i] ELSE t[i - Len(s)]
      BY ConcatProperties
    <2>2. Len(s) \in Nat /\ Len(t) \in Nat
      BY LenProperties
    <2> QED BY <2>1, <2>2
  <1>2. Rising(s \o t)
    <2> SUFFICES ASSUME NEW i \in 1..Len(s \o t), NEW j \in 1..Len(s \o t), i < j
                 PROVE  (s \o t)[i] < (s \o t)[j]
      BY DEF Rising
    <2>1. CASE i \in 1..Len(s) /\ j \in 1..Len(s)
      BY <1>1, <2>1 DEF Rising
    <2>2. CASE i \in 1..Len(s) /\ j - Len(s) \in 1..Len(t)
      BY <1>1, <2>2 DEF Below
    <2>3. CASE i - Len(s) \in 1..Len(t) /\ j - Len(s) \in 1..Len(t)
      <3>1. i - Len(s) < j - Len(s)
        BY <1>1
      <3>2. t[i - Len(s)] < t[j - Len(s)]
        BY <2>3, <3>1 DEF Rising
      <3>3. i \notin 1..Len(s) /\ j \notin 1..Len(s)
        BY <1>1, <2>3
      <3> QED BY <1>1, <3>2, <3>3
    <2> QED BY <1>1, <2>1, <2>2, <2>3
  <1>3. ASSUME NEW u \in Seq(Nat), Below(s, u), Below(t, u) PROVE Below(s \o t, u)
    BY <1>1, <1>3 DEF Below
  <1> QED BY <1>1, <1>2, <1>3

\* Values come out in the order sent, none twice, and only a watch or a broadcast channel
\* skips any: whatever tasks, drops and failures of the connection come between.
THEOREM ChannelsInOrder == Spec => []InOrder
  <1>1. ChannelInv => InOrder
    <2> SUFFICES ASSUME ChannelInv PROVE InOrder
      OBVIOUS
    <2>0. src \in Seq(Nat) /\ fwd \in Seq(Nat) /\ dst \in Seq(Nat) /\ got \in Seq(Nat)
      BY Types DEF ChannelInv
    <2>1. /\ got \o dst \in Seq(Nat) /\ Rising(got \o dst)
          /\ Below(got \o dst, fwd) /\ Below(got \o dst, src)
      BY <2>0, ConcatOrder DEF ChannelInv, Ordered
    <2>2. /\ got \o dst \o fwd \in Seq(Nat) /\ Rising(got \o dst \o fwd)
          /\ Below(got \o dst \o fwd, src)
      BY <2>0, <2>1, ConcatOrder DEF ChannelInv, Ordered
    <2>3. Whole \in Seq(Nat) /\ Rising(Whole)
      BY <2>0, <2>2, ConcatOrder DEF ChannelInv, Ordered, Whole
    <2>4. DOMAIN Whole = 1..Len(Whole) /\ DOMAIN got = 1..Len(got)
      BY <2>0, <2>3, LenProperties
    <2> QED BY <2>3, <2>4 DEF ChannelInv, Gapless, InOrder, Rising
  <1> QED BY <1>1, Invariance, PTL

\* The end of the channel is not seen before the last value, unless the connection failed,
\* a broadcast receiver lagged or the other way of a WireChannel ended first.
THEOREM ChannelsEndLosesNothing == Spec => []EndLosesNothing
  <1>1. ChannelInv => EndLosesNothing
    <2> SUFFICES ASSUME ChannelInv, ended, ~broken, ~lagged, ~back, sent > 0
                 PROVE  /\ got # <<>> /\ got[Len(got)] = sent
                        /\ kind \notin Lossy => Len(got) = sent
      BY DEF EndLosesNothing
    <2>1. LastOf(got, 0) = sent /\ (kind \notin Lossy => Len(got) = sent)
      BY DEF ChannelInv, AtEnd
    <2> QED BY <2>1 DEF LastOf
  <1> QED BY <1>1, Invariance, PTL

-----------------------------------------------------------------------------
(* A channel sent over a wire implements a channel.                         *)

LEMMA PromiseInit == Init => Promise!Init
  BY DEF Init, Promise!Init

LEMMA SendPromise == ASSUME ChannelInv, Send PROVE Promise!Accept
  <1>1. wtask = "run" /\ wtask' = "run" /\ sent' = sent + 1
    BY DEF Send
  <1>2. UNCHANGED <<kind, back, dstRx, got, ended, broken>>
    BY DEF Send
  <1>3. UNCHANGED lagged \/ (kind \in Lossy /\ lagged' = TRUE)
    BY DEF Send, Lossy
  <1>4. (broken' \/ lagged' \/ back') \in
          {broken \/ lagged \/ back, (broken \/ lagged \/ back) \/ kind \in Lossy}
    BY <1>2, <1>3, Types DEF ChannelInv
  <1> QED BY <1>1, <1>2, <1>4 DEF Promise!Accept

LEMMA ReceivePromise == ASSUME ChannelInv, Receive PROVE Promise!Deliver
  <1>1. dst # <<>> /\ dst \in Seq(Nat) /\ got \in Seq(Nat) /\ dstRx /\ ~ended /\ sent \in Nat
    BY Types DEF Receive, ChannelInv, Tasks
  <1>2. UNCHANGED <<kind, wtask, dstRx, sent, ended, lagged, back, broken>>
    BY DEF Receive, writerVars
  <1>3. Promise!LastDelivered = LastOf(got, 0)
    BY DEF Promise!LastDelivered, LastOf
  <1>4. Head(dst) = dst[1] /\ 1 \in 1..Len(dst) /\ Head(dst) \in Nat
    BY <1>1, HeadAndTail
  <1>5. LastOf(got, 0) \in Nat /\ LastOf(got, 0) < Head(dst) /\ Head(dst) <= sent
    <2>1. Head(dst) <= sent
      BY <1>4 DEF ChannelInv, Ordered, UpTo
    <2>2. CASE got = <<>>
      <3>1. dst[1] \in Value
        <4>1. dst \in Seq(Value)
          BY DEF ChannelInv, TypeOK, Value
        <4> QED BY <1>4, <4>1, ElementOfSeq
      <3> QED BY <1>4, <2>1, <2>2, <3>1, Bounds DEF LastOf, Value
    <2>3. CASE got # <<>>
      <3>1. Len(got) \in 1..Len(got)
        BY <1>1, <2>3, EmptySeq
      <3>2. got[Len(got)] < dst[1] /\ got[Len(got)] \in Nat
        BY <1>1, <1>4, <3>1, ElementOfSeq DEF ChannelInv, Ordered, Below
      <3> QED BY <1>4, <2>1, <2>3, <3>2 DEF LastOf
    <2> QED BY <2>2, <2>3
  <1>6. kind \in Lossy \/ Head(dst) = LastOf(got, 0) + 1
    <2> SUFFICES ASSUME kind \notin Lossy PROVE Head(dst) = LastOf(got, 0) + 1
      OBVIOUS
    <2>1. Head(dst) = Len(got) + 1
      BY <1>1, <1>4 DEF ChannelInv, Gapless
    <2>2. LastOf(got, 0) = Len(got)
      <3>1. got # <<>> => Len(got) \in 1..Len(got)
        BY <1>1, EmptySeq
      <3> QED BY <3>1, EmptySeq DEF LastOf, ChannelInv, Gapless
    <2> QED BY <2>1, <2>2
  <1>7. Head(dst) \in LastOf(got, 0) + 1 .. sent
    BY <1>1, <1>4, <1>5
  <1> QED BY <1>1, <1>2, <1>3, <1>6, <1>7 DEF Promise!Deliver, Receive

LEMMA SeeEndPromise == ASSUME ChannelInv, SeeEnd PROVE Promise!End
  <1>1. UNCHANGED <<kind, wtask, dstRx, sent, got, lagged, back, broken>> /\ dstRx /\ ~ended /\ ended' = TRUE
    BY DEF SeeEnd, writerVars
  <1>2. AtEnd' /\ ended'
    BY InvSeeEnd, <1>1 DEF ChannelInv
  <1>3. (broken \/ lagged \/ back) \/ (wtask = "done" /\ LastOf(got, 0) = sent)
    BY <1>1, <1>2 DEF AtEnd
  <1>4. Promise!LastDelivered = LastOf(got, 0)
    BY DEF Promise!LastDelivered, LastOf
  <1> QED BY <1>1, <1>3, <1>4 DEF Promise!End

LEMMA StopPromise ==
  ASSUME ChannelInv,
         UNCHANGED <<kind, sent, got, dstRx, ended, lagged, back, broken>>, wtask' \in {wtask, "done"}
  PROVE  Promise!Close \/ UNCHANGED Promise!vars
  <1>1. CASE wtask' = wtask
    BY <1>1 DEF Promise!vars
  <1>2. CASE wtask # "done" /\ wtask' = "done"
    BY <1>2 DEF Promise!Close
  <1> QED BY <1>1, <1>2

LEMMA FaultPromise ==
  ASSUME ChannelInv, OtherWayEnds \/ Break
  PROVE  Promise!Fault \/ UNCHANGED Promise!vars
  <1>1. UNCHANGED <<kind, sent, got, dstRx, ended, lagged, wtask>> /\ (broken' \/ lagged' \/ back')
    BY DEF OtherWayEnds, Break, writerVars, appVars
  <1>2. CASE broken \/ lagged \/ back
    BY <1>1, <1>2 DEF Promise!vars
  <1>3. CASE ~(broken \/ lagged \/ back)
    BY <1>1, <1>3 DEF Promise!Fault
  <1> QED BY <1>2, <1>3

LEMMA PromiseStep == ChannelInv /\ [Next]_vars => [Promise!Next]_(Promise!vars)
  <1> SUFFICES ASSUME ChannelInv, [Next]_vars PROVE Promise!Next \/ UNCHANGED Promise!vars
    OBVIOUS
  <1>1. CASE Send \/ Receive \/ SeeEnd
    BY <1>1, SendPromise, ReceivePromise, SeeEndPromise DEF Promise!Next
  <1>2. CASE OtherWayEnds \/ Break
    BY <1>2, FaultPromise DEF Promise!Next
  <1>3. CASE DropReceiver
    <2>1. UNCHANGED <<kind, sent, got, wtask, ended, lagged, back, broken>> /\ dstRx /\ dstRx' = FALSE
      BY <1>3 DEF DropReceiver, writerVars
    <2> QED BY <2>1 DEF Promise!StopListening, Promise!Next
  <1>4. CASE WriterTask \/ WriterWatch \/ ReaderTask \/ ReaderWatchTask \/ DropSenders
    <2>1. /\ UNCHANGED <<kind, sent, got, dstRx, ended, lagged, back, broken>>
          /\ wtask' \in {wtask, "done"}
      BY <1>4 DEF WriterTask, WriterStep, WriterEnd, WriterLags, WriterStops, WriterWatch, ReaderTask,
                  ReaderStep, ReaderEnd, ReaderWatchTask, ReaderWatch, WatchReceiverWatch, DropSenders,
                  writerVars, appVars
    <2> QED BY <2>1, StopPromise DEF Promise!Next
  <1>5. CASE UNCHANGED vars
    <2>1. UNCHANGED <<kind, sent, got, dstRx, ended, lagged, back, broken, wtask>>
      BY <1>5 DEF vars, writerVars, appVars
    <2> QED BY <2>1 DEF Promise!vars
  <1> QED BY <1>1, <1>2, <1>3, <1>4, <1>5 DEF Next

\* A channel sent over a wire implements the channel the applications reckon with.
THEOREM ChannelsKeepPromise == Spec => KeepsPromise
  BY PromiseInit, PromiseStep, Invariance, PTL DEF Spec, KeepsPromise, Promise!Spec
=============================================================================
