SPECIFICATION FairSpec
CONSTANTS
  a = a
  b = b
  Node = {a, b}
  MaxConns = 2
  Env <- EnvTearDown
CHECK_DEADLOCK FALSE
PROPERTIES NoRegistryLeak CallersAnswered ShutdownStops
