CONSTANTS
  Flags <- AllFlags
  Conns = {c1, c2}
SPECIFICATION Spec
INVARIANT NoPartialStart
PROPERTY SignalEndsProcess
CHECK_DEADLOCK FALSE
