----------------------------- MODULE WiredWatch -----------------------------
(***************************************************************************)
(* A watch channel in an event of the client.  unwiring of watch::Receiver *)
(* and of watch::Sender (unwire.rs) opens the stream of the channel and    *)
(* awaits the initial value from it.  Unwired::run is what calls unwiring, *)
(* and what reads the frames that bring the value: it reads no other frame *)
(* until the helper has delivered the value's.                             *)
(***************************************************************************)
EXTENDS Wired

\* unwiring has the stream and awaits the initial value.
Awaits(s) == reader[s] = "run" /\ rh[s][Remote(1)] = "open" /\ cur[s][Remote(1)] = 0
InitialValue(s) == Awaits(s) /\ PollRead(s, Remote(1))

\* The client sends the event; its writing task, or wiring itself, flushes the value.
ClientStep ==
  \/ Send(Client, 1) \/ FlushBegin(Client, Local(1))
ClientFlushEnd == FlushEnd(Client, Local(1))

TaskStep ==
  \/ \E s \in Side :
       \/ WiredStep(s) \/ HelperStep(s)
       \/ ~Awaits(s) /\ ReaderStep(s)
       \/ InitialValue(s)
  \/ ClientFlushEnd

SpecWatch == Init /\ [][TaskStep \/ ClientStep]_vars /\ WF_vars(TaskStep \/ FlushBegin(Client, Local(1)))
=============================================================================
