SPECIFICATION Spec
CONSTANTS
  a = a
  Channels <- MCChannels
  Sessions <- MCSessions
  AttemptsLimit = 2
  DbChannels <- MCLoads
  Requests <- MCRequests
  Setups <- MCReloaded
  NoSession = NoSession
\* The account may be shut down, or the run ended by ub.
CHECK_DEADLOCK FALSE
INVARIANT NoUseAfterFree
