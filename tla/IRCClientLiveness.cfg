SPECIFICATION FairSpec
CONSTANTS
  a = a
  Channels <- MCChannels
  Sessions <- MCSessions
  AttemptsLimit = 2
  DbChannels <- MCLoads
  Requests <- MCRequests
  Setups <- MCSingle
  NoSession = NoSession
\* The account may be shut down, or the run ended by ub.
CHECK_DEADLOCK FALSE
PROPERTIES AllLoggedIn EventuallyJoined
