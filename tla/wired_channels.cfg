SPECIFICATION SpecAll
CONSTANTS
  Client = client
  Server = server
  MaxEvents = 1
  MaxChans = 1
  MaxStreams = 1
  MaxMessages = 2
  HalfClose = TRUE
  Env <- MCEnv
  Scenes <- MCScenes
CHECK_DEADLOCK FALSE
INVARIANTS FirstArrives RegisterFirst MapsAgree ShutdownLosesNoEvent
PROPERTIES ShutdownTerminates DropPropagates EventsHandled SendersTold ReceiverTold AllReleased
