-------------------------- MODULE MCWiredChannels --------------------------
(* WiredChannels with values of Scenes.                                     *)
EXTENDS WiredChannels

Kinds(ofClient, ofServer) == [s \in Side |-> IF s = Client THEN ofClient ELSE ofServer]
ByClient(ops) == {Client} \X ops
\* The client alone sends an event, with a channel of one of the kinds.
FromClient(kinds, items, may) ==
  [kind : {Kinds(k, "none") : k \in kinds}, items : {items}, may : {may}]

\* On a connection that stays up: both ends dropped at any time, or more values than a
\* stream gives.
OneChannel ==
  FromClient({"sender", "receiver", "oneshot_sender", "oneshot_receiver"}, 1,
             ByClient({"send", "drop_tx", "drop_rx"}))
    \cup FromClient({"sender", "receiver"}, 2, ByClient({"send", "drop_tx"}))

\* Both sides open a stream, with the same id, and the client lets go of either.
TwoWays ==
  [kind : {Kinds("stream", "stream")}, items : {0},
   may : {(Side \X {"send"}) \cup ByClient({"drop_read"})}]

\* The connection is told to end, shut down from either side, aborted, or fails, with a
\* message under way; or is aborted, or fails, under the tasks of a channel.
TearDown ==
  FromClient({"none", "stream"}, 1,
             ByClient({"send", "shutdown", "abort", "abandon", "break"})
               \cup {<<Server, "shutdown">>})
    \cup FromClient({"none"}, 1, ByClient({"send", "send_none", "shutdown", "abandon"})
                                  \cup {<<Server, "send_none">>})
    \cup FromClient({"stream"}, 1, ByClient({"send", "send_none", "break"}))
    \cup FromClient({"sender", "receiver", "oneshot_sender"}, 1, ByClient({"send", "abort"}))
    \cup FromClient({"sender", "receiver"}, 0, ByClient({"send", "break"}))

MCEnv == Side \X Operation
MCScenes == OneChannel \cup TwoWays \cup TearDown
=============================================================================
