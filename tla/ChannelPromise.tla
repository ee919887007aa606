--------------------------- MODULE ChannelPromise ---------------------------
(***************************************************************************)
(* What the two applications at the ends of a channel may rely on, wherever *)
(* the ends are: values are taken, handed over in order, and the end is    *)
(* reported when all have been.  A fault lets the channel end early; it    *)
(* never lets it invent, repeat or reorder a value, nor come back.         *)
(***************************************************************************)
EXTENDS Naturals, Sequences

VARIABLES
  maySkip,    \* values may be passed over: a watch, a broadcast channel
  accepted,   \* number of values taken from the senders
  delivered,  \* the values handed to the receiver
  closed,     \* no more values are taken
  listening,  \* the receiver is held
  ended,      \* the receiver has been told that no more will come
  faulty

vars == <<maySkip, accepted, delivered, closed, listening, ended, faulty>>

Init ==
  /\ maySkip \in BOOLEAN /\ accepted = 0 /\ delivered = <<>>
  /\ closed = FALSE /\ listening = TRUE /\ ended = FALSE /\ faulty = FALSE

LastDelivered == IF delivered = <<>> THEN 0 ELSE delivered[Len(delivered)]

\* A value too many is a fault of a channel that overflows.
Accept ==
  /\ ~closed
  /\ accepted' = accepted + 1
  /\ faulty' \in {faulty, faulty \/ maySkip}
  /\ UNCHANGED <<maySkip, delivered, closed, listening, ended>>

Deliver ==
  /\ listening /\ ~ended
  /\ \E v \in LastDelivered + 1 .. accepted :
       /\ maySkip \/ v = LastDelivered + 1
       /\ delivered' = Append(delivered, v)
  /\ UNCHANGED <<maySkip, accepted, closed, listening, ended, faulty>>

\* The last value is never skipped.
End ==
  /\ listening /\ ~ended
  /\ faulty \/ (closed /\ LastDelivered = accepted)
  /\ ended' = TRUE
  /\ UNCHANGED <<maySkip, accepted, delivered, closed, listening, faulty>>

\* The senders are gone, or the receiver is, or the channel has failed.
Close ==
  /\ ~closed /\ closed' = TRUE
  /\ UNCHANGED <<maySkip, accepted, delivered, listening, ended, faulty>>
StopListening ==
  /\ listening /\ listening' = FALSE
  /\ UNCHANGED <<maySkip, accepted, delivered, closed, ended, faulty>>
Fault ==
  /\ ~faulty /\ faulty' = TRUE
  /\ UNCHANGED <<maySkip, accepted, delivered, closed, listening, ended>>

Next == Accept \/ Deliver \/ End \/ Close \/ StopListening \/ Fault

Spec == Init /\ [][Next]_vars
=============================================================================
