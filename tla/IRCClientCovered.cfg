SPECIFICATION Spec
CONSTANTS
  a = c1
  Channels = {c1, c2, c3}
  Sessions <- MCSessions
  AttemptsLimit = 1
  DbChannels <- MCWhole
  Requests <- MCRequests
  Setups <- MCShared
  NoSession = NoSession
CONSTRAINT Slow
SYMMETRY Symmetry
\* A behaviour ends where the constraint does.
CHECK_DEADLOCK FALSE
INVARIANT CoveredForGood
