SPECIFICATION Spec
CONSTANTS
  a = a
  b = b
  Node = {a, b}
  MaxConns = 3
  Env <- EnvPlain
CHECK_DEADLOCK FALSE
INVARIANT NestedFound
