SPECIFICATION FairSpec
CONSTANTS
  k1 = k1 nk = "nk" x = "x" w1 = w1
  Connections <- MCConnections
  Requests <- MCRequests
  MaxRequests = 2
  NoAnswer = NoAnswer
  Nicks <- MCNicks
  SessionIds <- MCIds
  Channels <- MCChannels
  Workers <- MCWorkers
  MaxEvents = 2
\* The program ends.
CHECK_DEADLOCK FALSE
INVARIANTS AnswersInOrder NoJobOutlives RepliesBeforeStop OwnedByMessage Accounted
PROPERTY Terminates
