\* Three threads, up to two connections, a database that may flap: safety.
CONSTANTS
    t1 = t1
    t2 = t2
    t3 = t3
    c1 = c1
    c2 = c2
    Threads <- MCThreads
    Connections <- MCConnections
    NoConnection = NoConnection
    SendRetries = 1
    MaxRequests = 2
    MaxOutages = 2
SPECIFICATION FairSpec
INVARIANTS NoLostWakeup
PROPERTIES ImplementsLease RequestsEnd
\* Every request made, or the pool inactive: the threads have stopped.
CHECK_DEADLOCK FALSE
