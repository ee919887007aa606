SPECIFICATION SpecWatch
CONSTANTS
  Client = client
  Server = server
  MaxEvents = 1
  MaxChans = 1
  MaxStreams = 1
  MaxMessages = 1
  HalfClose = TRUE
  Env <- EnvRead
CHECK_DEADLOCK FALSE
PROPERTIES EventsHandled
