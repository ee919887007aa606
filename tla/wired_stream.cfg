SPECIFICATION SpecStream
CONSTANTS
  Client = client
  Server = server
  MaxEvents = 1
  MaxChans = 1
  MaxStreams = 1
  MaxMessages = 2
  HalfClose = FALSE
  Env <- EnvOneStream
CHECK_DEADLOCK FALSE
INVARIANTS TypeOK TryRecvNeverMisses NothingLostOrReordered DeliveredWhenQuiet DropOnceNeverEchoed OpenedOnce TearDownNeverStuck
PROPERTIES ImplementsPipe
CONSTRAINT FewInTearDown
