----------------------------- MODULE MCListener -----------------------------
(* Listener with values of Env: what happens in each instance.             *)
EXTENDS Listener

CONSTANTS a, b

\* a opens wires to b and both send channels over them; b drops halves of wires, a gives up calls.
EnvNested ==
  ({a} \X {"connect", "connect_bi", "stream", "cancel", "accept_return"})
    \cup ({b} \X {"stream", "drop_half", "accept"})

\* With failing connections, a handler that is gone, and a
\* listener that is shut down.
EnvTearDown ==
  ({a} \X {"connect_bi", "stream", "cancel", "fail"})
    \cup ({b} \X {"accept", "accept_return", "drop", "drop_half", "deaf", "shutdown"})

\* a sends channels over a one-way wire, and nothing else happens.
EnvPlain == {<<a, "connect">>, <<a, "stream">>, <<b, "accept">>}
=============================================================================
