---------------------------- MODULE MCWiredWatch ----------------------------
(* WiredWatch with a value of Env.                                          *)
EXTENDS WiredWatch

EnvRead == ({Client} \X {"send", "flush"}) \cup ({Server} \X {"read"})
=============================================================================
