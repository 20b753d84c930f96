CONSTANTS
  Flags <- OneCommandLine
  Conns = {c1, c2}
SPECIFICATION Spec
INVARIANT NoRequestDropped
CHECK_DEADLOCK FALSE
