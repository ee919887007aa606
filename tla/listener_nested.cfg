SPECIFICATION Spec
CONSTANTS
  a = a
  b = b
  Node = {a, b}
  MaxConns = 3
  Env <- EnvNested
CHECK_DEADLOCK FALSE
INVARIANTS TypeOK Paired QueuedOnce FoundWhileAlive
