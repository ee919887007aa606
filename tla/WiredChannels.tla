--------------------------- MODULE WiredChannels ---------------------------
(***************************************************************************)
(* Channels over the streams of the multiplexer: Wired composed with the   *)
(* tasks that the Wiring and Unwiring impls of wire.rs and unwire.rs spawn *)
(* for a channel half inside an event.  Where Wired lets an application do *)
(* anything with the halves of a stream, here these tasks hold them.       *)
(*                                                                         *)
(* Side c sends at most one event, with at most one channel in it: its     *)
(* stream is Local(1) at c, the opener, and Remote(1) at Peer(c).  Unlike  *)
(* the TcpStream of Channels, this stream goes as a whole, on both sides,  *)
(* as soon as one half is dropped, and gives one message only (EofMeansEnd *)
(* of Wired).                                                              *)
(***************************************************************************)
EXTENDS Wired

CONSTANT Scenes  \* instances: the channel of each side, and what may happen

\* The channel half that is in the event.  "none" is an event without a channel, "stream"
\* one with a type whose own Wiring impl keeps the halves of its stream.
Kind == {"none", "stream", "sender", "receiver", "oneshot_sender", "oneshot_receiver"}
OneShot == {"oneshot_sender", "oneshot_receiver"}
\* A sender is used by the peer, so that the values come to the opener.
ToOpener == {"sender", "oneshot_sender"}

ASSUME ScenesAssumption == Scenes \subseteq
  [kind : [Side -> Kind], items : Nat,
   may : SUBSET (Side \X {"send", "send_none", "shutdown", "abort", "abandon", "break",
                          "drop_tx", "drop_rx", "drop_read"})]
\* The operations of the halves are the tasks' here, and not restricted by Env.
ASSUME TasksAssumption ==
  Side \X {"flush", "shut_write", "drop_write", "drop_read", "read"} \subseteq Env
ASSUME OneChannelAssumption == MaxEvents = 1 /\ MaxChans = 1 /\ MaxStreams = 1

VARIABLES
  scene,
  sent,    \* values the channel of c has accepted
  txGone, rxGone,  \* the application has dropped its senders, its receiver
  over,    \* the tasks of the channel that have returned or been aborted
  got      \* values put into the channel of the receiving application

chanVars == <<scene, sent, txGone, rxGone, over, got>>
allVars == <<vars, chanVars>>

InitChannels ==
  /\ scene \in Scenes
  /\ sent = [c \in Side |-> 0]
  /\ txGone = [c \in Side |-> FALSE] /\ rxGone = [c \in Side |-> FALSE]
  /\ over = [c \in Side |-> {}] /\ got = [c \in Side |-> <<>>]

MayNow(s, op) == <<s, op>> \in scene.may
KindOf(c) == scene.kind[c]
Channel == {c \in Side : KindOf(c) \notin {"none", "stream"}}

-----------------------------------------------------------------------------
(* Who holds what.                                                         *)

WriterSide(c) == IF KindOf(c) \in ToOpener THEN Peer(c) ELSE c
ReaderSide(c) == Peer(WriterSide(c))
KeyAt(c, s) == IF s = c THEN Local(1) ELSE Remote(1)

\* A oneshot has one task on each side, which holds both halves of the stream; the
\* others have one task for each half.
Task == {"writer", "writer_watch", "reader", "reader_watch"}
TasksOf(c) == IF KindOf(c) \in OneShot THEN {"writer", "reader"} ELSE Task
SideOf(c, t) == IF t \in {"writer", "writer_watch"} THEN WriterSide(c) ELSE ReaderSide(c)
HalfOf(c, t) ==
  LET s == SideOf(c, t)
  IN  IF t \in {"writer", "reader_watch"} THEN wh[s][KeyAt(c, s)] ELSE rh[s][KeyAt(c, s)]

\* The task has been spawned and has neither returned nor been aborted.
Runs(c, t) == t \in TasksOf(c) \ over[c] /\ HalfOf(c, t) \notin {"none", "dropped"}

\* The holder of a half has let it go, or is about to.
Released(c, s, half) ==
  LET w == s = WriterSide(c)
      t == IF KindOf(c) \in OneShot THEN IF w THEN "writer" ELSE "reader"
           ELSE IF w THEN IF half = "write" THEN "writer" ELSE "writer_watch"
           ELSE IF half = "write" THEN "reader_watch" ELSE "reader"
  IN  t \in over[c]

\* The half of the channel is still in the event at the opener; the event has come to
\* nothing; or it was taken off the transport in part only.
InEvent(c) == wh[c][Local(1)] = "none" /\ \E i \in DOMAIN wq[c] : wq[c][i].t = "event"
Torn(c) == reader[Peer(c)] # "run" /\ evHandled[Peer(c)] = 0

\* The application holds its sender (receiver): the one it kept, or the one it got
\* with the event.
TxHeld(c) == ~txGone[c] /\ ~(KindOf(c) \in ToOpener /\ Torn(c))
RxHeld(c) == ~rxGone[c] /\ ~(KindOf(c) \notin ToOpener /\ Torn(c))

\* The writer's side takes values; a sender of the reader's channel is left.
Accepts(c) == Runs(c, "writer") \/ (KindOf(c) \notin ToOpener /\ InEvent(c))
Fed(c) ==
  \/ Runs(c, "reader") \/ (KindOf(c) \notin OneShot /\ Runs(c, "reader_watch"))
  \/ KindOf(c) \in ToOpener /\ InEvent(c)

\* The half at side s is in the hands of the application.
InHand(c, s) == IF s = c THEN evSent[c] = 1 ELSE evHandled[s] = 1

-----------------------------------------------------------------------------
(* The tasks.                                                              *)

Ends(c, tasks) == over' = [over EXCEPT ![c] = @ \cup tasks]
SameApps == UNCHANGED <<scene, sent, txGone, rxGone>>

\* The writer takes the next value and writes it: wire is wiring, then flush, in one poll.
WriterTakes(c) ==
  /\ Runs(c, "writer") /\ sent[c] > flushed[WriterSide(c)][KeyAt(c, WriterSide(c))]
  /\ FlushBegin(WriterSide(c), KeyAt(c, WriterSide(c)))
  /\ SameApps /\ UNCHANGED <<over, got>>

\* The flush fails at its first send, the rx being gone.
WriterFails(c) ==
  LET s == WriterSide(c)
      k == KeyAt(c, s)
  IN  /\ Runs(c, "writer") /\ ~pend[s][k] /\ sent[c] > flushed[s][k] /\ ~RxAlive(s, k)
      /\ Ends(c, {"writer"})
      /\ SameApps /\ UNCHANGED <<vars, got>>

\* Its second send, which fails when the wired task has closed its queue.
WriterFlushed(c) ==
  LET s == WriterSide(c)
  IN  /\ FlushEnd(s, KeyAt(c, s))
      /\ IF wstate[s] = "open" THEN UNCHANGED over ELSE Ends(c, {"writer"})
      /\ SameApps /\ UNCHANGED got

\* recv gives None; a oneshot has no more to send after its value.
WriterDoneAtOnce(c) ==
  LET s == WriterSide(c)
  IN  /\ Runs(c, "writer") /\ ~TxHeld(c) /\ ~pend[s][KeyAt(c, s)]
      /\ Ends(c, {"writer"})
      /\ SameApps /\ UNCHANGED <<vars, got>>
WriterDone(c) ==
  LET s == WriterSide(c)
      k == KeyAt(c, s)
  IN  /\ Runs(c, "writer") /\ ~TxHeld(c) /\ ~pend[s][k] /\ sent[c] = flushed[s][k]
      /\ Ends(c, {"writer"})
      /\ SameApps /\ UNCHANGED <<vars, got>>

\* read_u8 returns: the writer is aborted, or is the task itself.
WriterWatchForgets(c) ==
  /\ Runs(c, "writer_watch") /\ PollReadEof(WriterSide(c), KeyAt(c, WriterSide(c)))
  /\ Ends(c, {"writer_watch"})
  /\ SameApps /\ UNCHANGED got
WriterWatch(c) ==
  LET s == WriterSide(c)
      k == KeyAt(c, s)
  IN  /\ Runs(c, "writer_watch") \/ (KindOf(c) \in OneShot /\ Runs(c, "writer") /\ flushed[s][k] = 0)
      /\ PollReadEof(s, k)
      /\ Ends(c, {"writer", "writer_watch"})
      /\ SameApps /\ UNCHANGED got

\* The reader takes a value and hands it on, unless the receiver is gone.  The impl of
\* Sender aborts the watching task when its reader ends, that of Receiver does not.
ReaderTasksAlone(c) == {"reader"}
ReaderTasks(c) == IF KindOf(c) = "sender" THEN {"reader", "reader_watch"} ELSE {"reader"}
ReaderTakes(c) ==
  LET s == ReaderSide(c)
      k == KeyAt(c, s)
  IN  /\ Runs(c, "reader") /\ PollRead(s, k)
      /\ got' = IF RxHeld(c) THEN [got EXCEPT ![c] = Append(@, Head(arr[s][k]))] ELSE got
      /\ IF RxHeld(c) /\ KindOf(c) \notin OneShot THEN UNCHANGED over ELSE Ends(c, ReaderTasks(c))
      /\ SameApps

\* unwire gives an error: the stream has ended.
ReaderEnds(c) ==
  /\ Runs(c, "reader") /\ PollReadEof(ReaderSide(c), KeyAt(c, ReaderSide(c)))
  /\ Ends(c, ReaderTasks(c))
  /\ SameApps /\ UNCHANGED got

\* closed() returns and the write half is shut down; the impl of Receiver then aborts the
\* reader.  The one task of a oneshot ends; on the opener's side it does not shut down.
ReaderWatch(c) ==
  /\ ~RxHeld(c) /\ KindOf(c) # "oneshot_sender"
  /\ Runs(c, IF KindOf(c) \in OneShot THEN "reader" ELSE "reader_watch")
  /\ ShutWrite(ReaderSide(c), KeyAt(c, ReaderSide(c)))
  /\ Ends(c, IF KindOf(c) = "sender" THEN {"reader_watch"} ELSE {"reader", "reader_watch"})
  /\ SameApps /\ UNCHANGED got
ReaderClosed(c) ==
  /\ ~RxHeld(c) /\ KindOf(c) = "oneshot_sender" /\ Runs(c, "reader")
  /\ Ends(c, {"reader"})
  /\ SameApps /\ UNCHANGED <<vars, got>>

\* A task that is over lets go of its halves; that of oneshot::Receiver on the opener's
\* side shuts down the write half first.
LetGo(c, s) ==
  LET k == KeyAt(c, s)
  IN  /\ \/ /\ Released(c, s, "write")
            /\ IF KindOf(c) = "oneshot_receiver" /\ s = c /\ wh[s][k] = "open"
               THEN ShutWrite(s, k) ELSE DropWrite(s, k)
         \/ Released(c, s, "read") /\ DropRead(s, k)
      /\ UNCHANGED chanVars

ChannelTask(c) ==
  \/ WriterTakes(c) \/ WriterFails(c) \/ WriterFlushed(c) \/ WriterDone(c) \/ WriterWatch(c)
  \/ ReaderTakes(c) \/ ReaderEnds(c) \/ ReaderWatch(c) \/ ReaderClosed(c)
  \/ \E s \in Side : LetGo(c, s)

-----------------------------------------------------------------------------
(* The applications.                                                       *)

Accept(c) ==
  /\ TxHeld(c) /\ InHand(c, WriterSide(c)) /\ Accepts(c) /\ sent[c] < scene.items
  /\ sent' = [sent EXCEPT ![c] = @ + 1]
  /\ txGone' = IF KindOf(c) \in OneShot THEN [txGone EXCEPT ![c] = TRUE] ELSE txGone
  /\ UNCHANGED <<vars, scene, rxGone, over, got>>

DropTx(c) ==
  /\ MayNow(c, "drop_tx") /\ TxHeld(c) /\ InHand(c, WriterSide(c))
  /\ txGone' = [txGone EXCEPT ![c] = TRUE]
  /\ UNCHANGED <<vars, scene, sent, rxGone, over, got>>

DropRx(c) ==
  /\ MayNow(c, "drop_rx") /\ RxHeld(c) /\ InHand(c, ReaderSide(c))
  /\ rxGone' = [rxGone EXCEPT ![c] = TRUE]
  /\ UNCHANGED <<vars, scene, sent, txGone, over, got>>

\* What is done with a stream that is held as such, on both sides.
HeldStep(c) ==
  /\ KindOf(c) = "stream"
  /\ \/ flushed[c][Local(1)] < scene.items /\ FlushBegin(c, Local(1))
     \/ \E s \in Side : MayNow(s, "drop_read") /\ DropRead(s, KeyAt(c, s))
  /\ UNCHANGED chanVars
HeldFlushEnd(c) == KindOf(c) = "stream" /\ FlushEnd(c, Local(1)) /\ UNCHANGED chanVars

HandleStep(s) ==
  /\ \/ MayNow(s, "send") /\ Send(s, IF KindOf(s) = "none" THEN 0 ELSE 1)
     \/ MayNow(s, "send_none") /\ SendNone(s)
     \/ MayNow(s, "shutdown") /\ Shutdown(s)
     \/ MayNow(s, "abort") /\ Abort(s)
     \/ MayNow(s, "abandon") /\ AbandonShutdown(s)
     \/ MayNow(s, "break") /\ Break
  /\ UNCHANGED chanVars

\* The steps of the runtime, and those of the applications and the network.
ConnectionTask(s) == (WiredStep(s) \/ ReaderStep(s) \/ HelperStep(s)) /\ UNCHANGED chanVars
TaskStep ==
  \/ \E s \in Side : ConnectionTask(s) \/ HeldFlushEnd(s)
  \/ \E c \in Channel : ChannelTask(c)
UserStep ==
  \/ \E s \in Side : HandleStep(s) \/ HeldStep(s)
  \/ \E c \in Channel : Accept(c) \/ DropTx(c) \/ DropRx(c)

\* The runtime does not rest while a task can move.  As every task does finitely much, this
\* is as much as weak fairness for each of them.
SpecAll ==
  Init /\ InitChannels /\ [][TaskStep \/ UserStep]_allVars /\ WF_allVars(TaskStep)

-----------------------------------------------------------------------------
(* Properties.                                                             *)

\* A stream gives one message only, but that one is never lost: while the connection is
\* up, the receiver does not see the end of the channel before the first value that was
\* accepted.  For a oneshot that is all of them.
FirstArrives ==
  Up => \A c \in Channel :
    /\ Len(got[c]) <= sent[c] /\ (got[c] # <<>> => got[c][1] = 1)
    /\ sent[c] > 0 /\ RxHeld(c) /\ InHand(c, ReaderSide(c)) /\ ~Fed(c) => got[c] # <<>>

\* Whatever becomes of the connection, in the end: when the receiver is gone, the senders
\* have been told.
SendersTold == <>[](\A c \in Channel : evSent[c] = 1 /\ ~RxHeld(c) => ~Accepts(c))

\* When the senders are gone, the receiver has seen the end, except one made by the Receiver
\* impl, whose watching task holds a sender (EndSeen of Channels).
ReceiverTold ==
  <>[](\A c \in Channel : evSent[c] = 1 /\ ~TxHeld(c) =>
         ~RxHeld(c) \/ ~Fed(c) \/ KindOf(c) = "receiver")

\* When both are gone, so are the tasks, and the stream from all four maps.
AllReleased ==
  <>[](\A c \in Channel : evSent[c] = 1 /\ ~RxHeld(c) /\ ~TxHeld(c) =>
         /\ \A t \in Task : ~Runs(c, t)
         /\ \A s \in Side : KeyAt(c, s) \notin wired[s] \cup helper[s])
=============================================================================
