SPECIFICATION Spec
CONSTANTS
  a = a
  b = b
  Node = {a, b}
  MaxConns = 2
  Env <- EnvPlain
CHECK_DEADLOCK FALSE
INVARIANT StreamFindsWire
