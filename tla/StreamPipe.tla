----------------------------- MODULE StreamPipe -----------------------------
(***************************************************************************)
(* What one wired stream promises in each direction, as its two            *)
(* applications see it (wiring/src/core/wired.rs, InternalWriteHalf and    *)
(* InternalReadHalf): the messages flushed on one end are handed over on   *)
(* the other one by one, in order, none skipped, none twice, none made up, *)
(* until the stream ends; it ends once, with whatever is still under way,  *)
(* and never comes back.                                                   *)
(***************************************************************************)
EXTENDS Naturals, Sequences

CONSTANT Direction   \* the directions of all streams

VARIABLES
  phase,     \* "new", "open" or "ended", at the receiving end
  sent,      \* number of messages flushed; message i is the number i
  received   \* the messages handed over

pipe == <<phase, sent, received>>

Init ==
  /\ phase = [d \in Direction |-> "new"]
  /\ sent = [d \in Direction |-> 0]
  /\ received = [d \in Direction |-> <<>>]

Open(d) ==
  /\ phase[d] = "new"
  /\ phase' = [phase EXCEPT ![d] = "open"]
  /\ UNCHANGED <<sent, received>>

Send(d) ==
  /\ sent' = [sent EXCEPT ![d] = @ + 1]
  /\ UNCHANGED <<phase, received>>

Deliver(d) ==
  /\ phase[d] = "open" /\ Len(received[d]) < sent[d]
  /\ received' = [received EXCEPT ![d] = Append(@, Len(@) + 1)]
  /\ UNCHANGED <<phase, sent>>

\* Several streams end at once when a side goes down.
End(D) ==
  /\ phase' = [d \in Direction |-> IF d \in D THEN "ended" ELSE phase[d]]
  /\ UNCHANGED <<sent, received>>

Next ==
  \/ \E d \in Direction : Open(d) \/ Send(d) \/ Deliver(d)
  \/ \E D \in SUBSET Direction : End(D)

Spec == Init /\ [][Next]_pipe
=============================================================================
