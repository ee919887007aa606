------------------------------ MODULE MCWired ------------------------------
(* Wired with values of Env: what the surroundings do in each instance.    *)
EXTENDS Wired

EnvOneStream ==
  ({Client} \X {"send", "flush", "shut_write", "drop_read",
                "shutdown", "abandon", "abort", "break"})
    \cup ({Server} \X {"flush", "drop_write", "read"})

\* The stream is held by both sides, or not there yet, and carries nothing so far.
Fresh ==
  \A s \in Side, k \in Key :
    wh[s][k] \in {"none", "open"} /\ rh[s][k] \in {"none", "open"} /\ flushed[s][k] = 0

\* The connection begins to go down while the stream is fresh, or not at all ...
NextStream ==
  \/ \E s \in Side :
       \/ WiredStep(s) \/ ReaderStep(s) \/ HelperStep(s)
       \/ \E n \in 0..MaxChans : Send(s, n)
       \/ \E k \in Key : HalfStep(s, k)
  \/ Fresh /\ Break
  \/ \E s \in Side : Fresh /\ (Shutdown(s) \/ Abort(s) \/ AbandonShutdown(s))
SpecStream == Init /\ [][NextStream]_vars

\* ... and then the client flushes at most one message, and nobody lets go of one half.
FewInTearDown ==
  Up \/ /\ flushed[Client][Local(1)] <= 1 /\ flushed[Server][Remote(1)] = 0
        /\ \A s \in Side, k \in Key :
             wh[s][k] # "shut" /\ (wh[s][k] = "dropped") = (rh[s][k] = "dropped") /\ ~eof[s][k]

\* Reading what was written, and nothing else.
EnvRead == ({Client} \X {"send", "flush"}) \cup ({Server} \X {"read"})
=============================================================================
