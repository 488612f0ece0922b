SPECIFICATION Spec
CONSTANTS
    Capacity = 3
    Bytes = {0, 1}
    Lower <- MCLower
    Number <- MCNumber
    schemeToPort <- MCPort
    Urls <- MCUrls
    References <- MCReferences
    Words <- MCWords
    Ports <- MCPorts
    Paths <- MCPaths
    Queries <- MCQueries
    MaxCalls = 1
    Workers = {w1, w2}
    Given <- MCGiven
    Child <- MCChild
    None = None
    Owner = Owner
    Channels = {c1, c2, c3, c4}
    Sessions = {s1, s2, s3}
    NoSession = NoSession
    r1 = r1 r2 = r2 r3 = r3 r4 = r4
    Served <- MCServed
    MaxThreads = 3
\* a session ends, a pool is destroyed, an address is called on no more
CHECK_DEADLOCK FALSE
INVARIANT ResolvesAsRFC
