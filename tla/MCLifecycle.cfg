SPECIFICATION FairSpec
CONSTANTS
  c1 = c1
  c2 = c2
  Conn <- TwoConns
  Timeout = 2
  MaxExchanges = 2
  NewGrace = 1
  ShutdownTimeout = 2
  TracingTimeout = 1
  MaxSignals = 2
INVARIANTS TypeOK CleanReturnCutsNothing SpansAccounted
PROPERTIES GivesUpOnlyWhenLate EndsOnceAsked
CHECK_DEADLOCK FALSE
