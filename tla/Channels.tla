------------------------------ MODULE Channels ------------------------------
(***************************************************************************)
(* A tokio channel sent over a wire (the Wiring impls of wire.rs and the   *)
(* Unwiring impls of unwire.rs for oneshot, mpsc, watch, broadcast and     *)
(* WireChannel).  The channel gets a stream of its own and is continued on *)
(* the other side by a channel made there.  Whatever is sent, one side     *)
(* writes and the other reads:                                             *)
(*                                                                         *)
(*   senders -> src -> writer task ==stream==> reader task -> dst -> receiver *)
(*                                                                         *)
(* Beside the writer (reader) a second task watches the way back (the      *)
(* receiver), so that a dropped receiver stops the senders; the small      *)
(* impls do both in one select!.  The stream is a TcpStream: its two       *)
(* directions close apart.  The values are numbered 1, 2, ....  The value  *)
(* a watch has at the start is left out: a writer task begins with it      *)
(* (WatchStream::new), as it would with one sent before the task ran.      *)
(***************************************************************************)
EXTENDS Naturals, Sequences

CONSTANTS
  Kinds,    \* the kinds of channel of the instance
  MaxItems, \* bound: values sent
  Caps,     \* capacities of the bounded channels; MaxItems for an unbounded one
  Breaks    \* whether the connection may fail

\* The half that is sent over the wire.
Kind == {"sender", "receiver",                  \* mpsc, bounded or not
         "oneshot_sender", "oneshot_receiver", "watch_sender", "watch_receiver",
         "broadcast_sender", "broadcast_receiver", "wire_channel"}
ASSUME KindsAssumption == Kinds \subseteq Kind
ASSUME BoundsAssumption == MaxItems \in Nat /\ Caps \subseteq Nat \ {0} /\ Breaks \in BOOLEAN

OneShot == {"oneshot_sender", "oneshot_receiver"}
Watch == {"watch_sender", "watch_receiver"}
\* The channels that skip values: a slow receiver gets the last, or what still fits.
Lossy == Watch \cup {"broadcast_sender", "broadcast_receiver"}
\* The reader is one task, which watches the receiver too.
OneReader == OneShot \cup {"watch_sender", "broadcast_sender", "wire_channel"}

VARIABLES
  kind, cap,
  src, srcTx,  \* the channel on the writer's side; some of its senders are held
  lagged,      \* broadcast: values were overwritten before the writer took them
  wtask, wdet, \* the writer and the task that watches the way back: "run", "done"
  fwd,         \* values on the stream; it ends when the writer does
  back,        \* WireChannel: the other way, from reader to writer, is over
  rtask, rdet, \* the reader and the task that watches the receiver
  dst, dstRx,  \* the channel on the reader's side; its receiver is held
  broken,      \* the connection has failed
  sent, got, ended  \* values accepted, values received, end of the channel seen

writerVars == <<src, lagged, wtask, wdet>>
readerVars == <<rtask, rdet, dst>>
appVars == <<srcTx, dstRx, sent, got, ended>>
vars == <<kind, cap, writerVars, fwd, back, readerVars, appVars, broken>>

Init ==
  /\ kind \in Kinds /\ cap \in Caps
  /\ src = <<>> /\ fwd = <<>> /\ dst = <<>> /\ got = <<>> /\ sent = 0
  /\ wtask = "run" /\ wdet = "run" /\ rtask = "run" /\ rdet = "run"
  /\ srcTx = TRUE /\ dstRx = TRUE
  /\ lagged = FALSE /\ back = FALSE /\ broken = FALSE /\ ended = FALSE

\* The reader's side has closed its direction; it has dropped the stream.
BackClosed == back \/ rdet = "done" \/ broken
Down == broken \/ (rtask = "done" /\ rdet = "done")

\* Who holds a sender of dst: the mpsc impls clone it for the task that watches.
DstOpen == rtask = "run" \/ (kind \in {"sender", "receiver", "broadcast_receiver"} /\ rdet = "run")

-----------------------------------------------------------------------------
(* The writer's side.                                                      *)

\* A value is accepted as long as the writer holds src.  A watch keeps the last, a
\* full broadcast channel overwrites the first.
Send ==
  /\ srcTx /\ wtask = "run" /\ sent < MaxItems
  /\ sent' = sent + 1
  /\ \/ kind \in OneShot /\ sent = 0 /\ src' = <<1>> /\ UNCHANGED lagged
     \/ kind \in Watch /\ src' = <<sent + 1>> /\ UNCHANGED lagged
     \/ kind \notin OneShot \cup Watch /\ Len(src) < cap
        /\ src' = Append(src, sent + 1) /\ UNCHANGED lagged
     \/ kind = "broadcast_receiver" /\ Len(src) = cap
        /\ src' = Append(Tail(src), sent + 1) /\ lagged' = TRUE
  /\ UNCHANGED <<kind, cap, wtask, wdet, fwd, back, readerVars, srcTx, dstRx, got, ended, broken>>

\* The writer ends, or is aborted: src goes with all it holds, and its half of the
\* stream.  The one select! of a oneshot drops the other half too.
WriterStops == wtask' = "done" /\ src' = <<>> /\ wdet' = IF kind \in OneShot THEN "done" ELSE wdet

\* The next value is written; a write on a stream that is down fails or is lost.
WriterStepKeeps ==
  /\ wtask = "run" /\ src # <<>> /\ ~lagged
  /\ fwd' = Append(fwd, Head(src)) /\ Len(fwd) < 2 * MaxItems
  /\ \/ kind \in OneShot /\ WriterStops
     \/ kind \notin OneShot /\ UNCHANGED <<src, wtask, wdet>>
  /\ UNCHANGED <<kind, cap, lagged, back, readerVars, appVars, broken>>
WriterStep ==
  /\ wtask = "run" /\ src # <<>> /\ ~lagged
  /\ IF Down THEN UNCHANGED fwd ELSE fwd' = Append(fwd, Head(src))
  /\ \/ kind \in OneShot /\ WriterStops
     \/ kind \notin OneShot /\ src' = Tail(src) /\ UNCHANGED <<wtask, wdet>>
     \/ kind \notin OneShot /\ Down /\ WriterStops
  /\ UNCHANGED <<kind, cap, lagged, back, readerVars, appVars, broken>>

\* recv gives None: all senders are gone and all values written.
WriterEndAtOnce ==
  /\ wtask = "run" /\ ~srcTx
  /\ WriterStops
  /\ UNCHANGED <<kind, cap, lagged, fwd, back, readerVars, appVars, broken>>
WriterEnd ==
  /\ wtask = "run" /\ ~srcTx /\ src = <<>>
  /\ WriterStops
  /\ UNCHANGED <<kind, cap, lagged, fwd, back, readerVars, appVars, broken>>

\* broadcast recv gives Lagged, which ends the loop like a closed channel.
WriterLags ==
  /\ wtask = "run" /\ lagged
  /\ WriterStops
  /\ UNCHANGED <<kind, cap, lagged, fwd, back, readerVars, appVars, broken>>

\* read_u8 on the way back returns: the writer is aborted, whatever is left in src.
WriterWatchForgets ==
  /\ wdet = "run" /\ BackClosed
  /\ wdet' = "done"
  /\ UNCHANGED <<src, wtask, kind, cap, lagged, fwd, back, readerVars, appVars, broken>>
WriterWatch ==
  /\ wdet = "run" /\ BackClosed
  /\ wdet' = "done" /\ wtask' = "done" /\ src' = <<>>
  /\ UNCHANGED <<kind, cap, lagged, fwd, back, readerVars, appVars, broken>>

-----------------------------------------------------------------------------
(* The reader's side.                                                      *)

\* What becomes of the watching task when the reader ends: the impls of Sender abort
\* it, that of Receiver leaves it; a watch's sees that the sender is gone, later.
ReaderStopsAlone == rtask' = "done" /\ UNCHANGED rdet
ReaderStops ==
  /\ rtask' = "done"
  /\ rdet' = IF kind \in OneReader \cup {"sender"} THEN "done" ELSE rdet

\* dst with a value more: a watch keeps it alone, a full broadcast channel overwrites.
Added(q, v) ==
  IF kind \in Watch \cup OneShot THEN <<v>>
  ELSE IF kind = "broadcast_sender" /\ Len(q) = cap THEN Append(Tail(q), v)
  ELSE Append(q, v)

\* Whether dst takes a value now: the send of a bounded mpsc waits for room.
HasRoomAlways == TRUE
HasRoom == kind \in Lossy \ {"broadcast_receiver"} \/ Len(dst) < cap

\* A value of the stream goes into dst.  A oneshot is done with its value; the others
\* are when the receiver is gone.
ReaderStep ==
  /\ rtask = "run" /\ fwd # <<>>
  /\ fwd' = Tail(fwd)
  /\ \/ /\ kind \notin OneShot /\ (dstRx \/ kind = "watch_receiver") /\ HasRoom
        /\ dst' = Added(dst, Head(fwd)) /\ UNCHANGED <<rtask, rdet>>
     \/ kind \in OneShot /\ dstRx /\ dst' = Added(dst, Head(fwd)) /\ ReaderStops
     \/ ~dstRx /\ kind # "watch_receiver" /\ UNCHANGED dst /\ ReaderStops
  /\ UNCHANGED <<kind, cap, writerVars, back, appVars, broken>>

\* unwire gives an error: the stream has ended.
ReaderEndAtGap ==
  /\ rtask = "run" /\ fwd = <<>>
  /\ ReaderStops
  /\ UNCHANGED <<kind, cap, writerVars, fwd, back, dst, appVars, broken>>
ReaderEndIfBroken ==
  /\ rtask = "run" /\ fwd = <<>> /\ broken
  /\ ReaderStops
  /\ UNCHANGED <<kind, cap, writerVars, fwd, back, dst, appVars, broken>>
ReaderEnd ==
  /\ rtask = "run" /\ fwd = <<>> /\ (wtask = "done" \/ broken)
  /\ ReaderStops
  /\ UNCHANGED <<kind, cap, writerVars, fwd, back, dst, appVars, broken>>

\* closed() returns.  Sender: the way back is closed, the reader is left to fail.
SenderWatch == kind = "sender" /\ rdet' = "done" /\ UNCHANGED rtask
\* Receiver: the way back is closed and the reader aborted.
ReceiverWatch == kind \in {"receiver", "broadcast_receiver"} /\ rdet' = "done" /\ rtask' = "done"
\* The select! of the others; a broadcast sender cannot tell.
SelectWatch == kind \in OneReader \ {"broadcast_sender"} /\ rtask' = "done" /\ rdet' = "done"
ReaderWatch ==
  /\ rdet = "run" /\ ~dstRx
  /\ SenderWatch \/ ReceiverWatch \/ SelectWatch
  /\ UNCHANGED <<kind, cap, writerVars, fwd, back, dst, appVars, broken>>

\* The task of watch::Receiver waits on a receiver of its own: it sees the reader end
\* and not the application's receiver go.
WatchReceiverWatch ==
  /\ kind = "watch_receiver" /\ rdet = "run" /\ rtask = "done"
  /\ rdet' = "done"
  /\ UNCHANGED <<kind, cap, writerVars, fwd, back, rtask, dst, appVars, broken>>

-----------------------------------------------------------------------------
(* The applications and the connection.                                    *)

DropSenders ==
  /\ srcTx /\ srcTx' = FALSE
  /\ UNCHANGED <<kind, cap, writerVars, fwd, back, readerVars, dstRx, sent, got, ended, broken>>

Receive ==
  /\ dstRx /\ dst # <<>>
  /\ got' = Append(got, Head(dst)) /\ dst' = Tail(dst)
  /\ UNCHANGED <<kind, cap, writerVars, fwd, back, rtask, rdet, srcTx, dstRx, sent, ended, broken>>

\* recv gives None (changed, an error).
SeeEnd ==
  /\ dstRx /\ dst = <<>> /\ ~DstOpen /\ ~ended
  /\ ended' = TRUE
  /\ UNCHANGED <<kind, cap, writerVars, fwd, back, readerVars, srcTx, dstRx, sent, got, broken>>

DropReceiver ==
  /\ dstRx /\ dstRx' = FALSE /\ dst' = <<>>
  /\ UNCHANGED <<kind, cap, writerVars, fwd, back, rtask, rdet, srcTx, sent, got, ended, broken>>

\* The reader's side of a WireChannel has no more to send, or the writer's side drops
\* the receiver it has: either ends the recv_task there, which aborts the writer.
OtherWayEnds ==
  /\ kind = "wire_channel" /\ ~back
  /\ back' = TRUE
  /\ UNCHANGED <<kind, cap, writerVars, fwd, readerVars, appVars, broken>>

Break ==
  /\ Breaks /\ ~broken
  /\ broken' = TRUE
  /\ \E n \in 0..Len(fwd) : fwd' = SubSeq(fwd, 1, n)
  /\ UNCHANGED <<kind, cap, writerVars, back, readerVars, appVars>>

WriterTask == WriterStep \/ WriterEnd \/ WriterLags
ReaderTask == ReaderStep \/ ReaderEnd
ReaderWatchTask == ReaderWatch \/ WatchReceiverWatch

Next ==
  \/ WriterTask \/ WriterWatch \/ ReaderTask \/ ReaderWatchTask
  \/ Send \/ DropSenders \/ Receive \/ SeeEnd \/ DropReceiver \/ OtherWayEnds \/ Break

Spec == Init /\ [][Next]_vars

\* The four tasks are polled; the applications need not send, receive or drop.
Fairness ==
  WF_vars(WriterTask) /\ WF_vars(WriterWatch) /\ WF_vars(ReaderTask) /\ WF_vars(ReaderWatchTask)
FairSpec == Spec /\ Fairness

-----------------------------------------------------------------------------
(* Properties.                                                             *)

\* The type invariant.
TypeOK ==
  /\ kind \in Kind /\ cap \in Nat \ {0}
  /\ src \in Seq(1..MaxItems) /\ fwd \in Seq(1..MaxItems)
  /\ dst \in Seq(1..MaxItems) /\ got \in Seq(1..MaxItems)
  /\ {wtask, wdet, rtask, rdet} \subseteq {"run", "done"}
  /\ {srcTx, dstRx, lagged, back, broken, ended} \subseteq BOOLEAN
  /\ sent \in 0..MaxItems
  /\ Len(src) <= cap /\ Len(dst) <= cap

Whole == got \o dst \o fwd \o src

\* Values are received in the order sent, none twice; only a watch and a broadcast
\* channel skip any.
InOrder ==
  /\ \A i, j \in DOMAIN Whole : i < j => Whole[i] < Whole[j]
  /\ kind \notin Lossy => \A i \in DOMAIN got : got[i] = i

\* Nothing that the channel accepted is lost: as long as the receiver is held and the
\* connection is up, the end of the channel is seen only after all values (the last, where
\* values may be skipped).  A broadcast receiver that lags loses the rest, and a
\* WireChannel does lose values once the other way has ended.
EndLosesNothing ==
  ended /\ ~broken /\ ~lagged /\ ~back /\ sent > 0 =>
    /\ got # <<>> /\ got[Len(got)] = sent
    /\ kind \notin Lossy => Len(got) = sent

\* When the senders are gone, the receiver sees the end, once it has taken what came.
EndSeen == ~srcTx ~> ~DstOpen \/ dst # <<>> \/ ~dstRx

\* The same for every kind but those whose reader is the Receiver impl.
EndSeenElsewhere ==
  ~srcTx ~> ~DstOpen \/ dst # <<>> \/ ~dstRx \/ kind \in {"receiver", "broadcast_receiver"}

\* When the receiver is gone, the senders are told: src is closed.  Not so for
\* watch::Receiver and broadcast::Sender, which hear of it from the senders' side.
CloseSeen == ~dstRx ~> wtask = "done" \/ kind \in {"watch_receiver", "broadcast_sender"}

\* When both ends are gone, so are all tasks, and with them the stream.
TasksEnd == ~srcTx /\ ~dstRx ~> {wtask, wdet, rtask, rdet} = {"done"}

\* Whatever is between the ends, a channel sent over a wire keeps the promise of one that is
\* not: the end is told early only when the connection fails, a broadcast receiver lags or
\* the other way of a WireChannel ends.
Promise == INSTANCE ChannelPromise WITH
  maySkip <- kind \in Lossy, accepted <- sent, delivered <- got, closed <- wtask = "done",
  listening <- dstRx, faulty <- broken \/ lagged \/ back
KeepsPromise == Promise!Spec
=============================================================================
