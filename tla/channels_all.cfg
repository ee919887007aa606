SPECIFICATION FairSpec
CONSTANTS
  Kinds = {"sender", "receiver", "oneshot_sender", "oneshot_receiver", "watch_sender", "watch_receiver", "broadcast_sender", "broadcast_receiver", "wire_channel"}
  MaxItems = 3
  Caps = {1, 3}
  Breaks = TRUE
CHECK_DEADLOCK FALSE
INVARIANTS TypeOK InOrder EndLosesNothing
PROPERTIES EndSeenElsewhere CloseSeen TasksEnd KeepsPromise
