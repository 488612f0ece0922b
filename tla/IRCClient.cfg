SPECIFICATION Spec
CONSTANTS
  a = a
  Channels <- MCChannels
  Sessions <- MCFive
  AttemptsLimit = 2
  DbChannels <- MCLoads
  Requests <- MCRequests
  Setups <- MCAll
  NoSession = NoSession
\* The account may be shut down, or the run ended by ub.
CHECK_DEADLOCK FALSE
CONSTRAINT Slowly
INVARIANTS TypeOK SessionDriven Watched CoveredWhenSettled Provoked
PROPERTIES NeverStolen JoinsListed
