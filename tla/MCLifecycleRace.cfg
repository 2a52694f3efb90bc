SPECIFICATION Spec
CONSTANTS
  c1 = c1
  c2 = c2
  Conn <- OneConn
  Timeout = 2
  MaxExchanges = 2
  NewGrace = 1
  ShutdownTimeout = 2
  TracingTimeout = 1
  MaxSignals = 2
INVARIANT FailureSurfaces
CHECK_DEADLOCK FALSE
