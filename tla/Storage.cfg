\* Three chat messages and a log record, two processor threads, batches of two, one failing insert.
CONSTANTS
    m1 = m1
    m2 = m2
    m3 = m3
    l1 = l1
    Arrivals <- MCArrivals
    Log <- MCLog
    Threads = 2
    BatchSize = 2
    MaxFaults = 1
SPECIFICATION FairSpec
INVARIANTS Conserved DropsPaid NothingLeft FewOvertaken
PROPERTIES Flushed ImplementsRecordLog
\* The agent is finished or the program aborted.
CHECK_DEADLOCK FALSE
